---- MODULE Spec2Model ----
(***************************************************************************)
(* The edge pipeline of the SafetyVision edge server: the Alert Dispatcher *)
(* (edge/services/alert_service.py), the Cloud Sync Queue                  *)
(* (edge/services/cloud_sync.py), the pending-sync markers of the Evidence *)
(* Store (edge/services/local_storage.py) and the violation handler of the *)
(* Camera Orchestrator (edge/services/camera_manager.py).                  *)
(*                                                                         *)
(* The services run as asyncio tasks on one event loop: code between two   *)
(* awaits that really suspend (network I/O, asyncio.sleep) is one atomic   *)
(* action.  The collaborator (the cloud service) answers every request     *)
(* nondeterministically.                                                   *)
(***************************************************************************)
EXTENDS Integers, Sequences, FiniteSets, TLC

\* ------------------------------------------------------------------ bounds
\* Items ever appended to CloudSyncService._pending_queue.
MaxEnq == 3
\* Frames the camera pipeline ever hands to _handle_violation.
MaxFrames == 1
\* The wall clock stops advancing here.
MaxTime == 90
\* send_alert calls suspended on their immediate POST at the same time.
MaxInflight == 2
\* Items appended to the queue while the loop is run fairly (LiveSpec).
MaxLiveEnq == 2
\* Items appended to the queue while a backlog builds up.
MaxBacklog == 11
\* Items at the head of a batch whose requests can fail in a backlog.
MaxFailIdx == 1
\* CameraStream objects ever constructed.
MaxStreams == 2
\* _process_camera tasks ever created.
MaxTasks == 3
\* CameraStream objects and _process_camera tasks ever created, together,
\* while two cameras are managed.
MaxCamObjects == 4
\* Times the wall clock is moved on by hours or days.
MaxClockSteps == 4
\* Violations in one frame.
MaxViolations == 5
\* Rows and columns of a frame, and regions in one call of the blur service.
FrameH == 2
FrameW == 3
MaxRegions == 2
\* Polygon vertices and points have coordinates 0..MaxCoord.
MaxCoord == 1
\* Vertices of a polygon.
MaxVertices == 3
\* Zones and detections in one detect_zones call.
MaxZones == 2
MaxDetections == 2

\* One Tick of the wall clock, in seconds.
TickSeconds == 30

\* ------------------------------------------------------- program constants
\* AlertService.__init__(cooldown_seconds=60); main.py passes no other value.
cooldown_seconds == 60
\* _process_queue: self._pending_queue[:10]
BatchSize == 10
\* LocalStorageService.__init__(retention_days=30); main.py passes no other
\* value.
retention_days == 30
\* timedelta(days=1), in seconds.
DaySeconds == 86400

None == "None"

\* Camera ids are free-form strings chosen at registration (CameraConfig);
\* violation classes are names of EdgeConfig.detection_classes.
Cameras == {"cam", "cam_no"}
Types == {"hardhat", "no_hardhat"}
Severities == {"low", "high"}
\* EdgeConfig.alert_threshold, handed to AlertService by main.py.
alert_threshold == "high"

VARIABLES
    \* ---- AlertService
    recent_alerts,      \* _recent_alerts: cooldown key -> time of last alert
    alert_counts,       \* _alert_counts: cooldown key -> alerts sent
    next_uuid,          \* uuid.uuid4(): the next fresh alert id
    \* ---- CloudSyncService
    is_connected,       \* _is_connected
    pending_queue,      \* _pending_queue
    running,            \* _running
    session,            \* _session: "none" | "open" | "closed"
    loop_pc,            \* where start_sync_loop's task is suspended
    cyc_batch,          \* _process_queue: the snapshot self._pending_queue[:10]
    cyc_idx,            \* _process_queue: index of the item in flight
    cyc_step,           \* the request of that item that is in flight
    cyc_processed,      \* _process_queue: processed
    inflight,           \* send_alert calls suspended on their immediate POST
    next_seq,           \* datetime.utcnow() of the next append (queued_at)
    \* ---- LocalStorageService (on disk)
    pending_sync,       \* detection ids with a pending_sync/<id>.json marker
    metadata_files,     \* detection ids with a metadata/<id>.json file
    next_frame,         \* the next frame id the inference engine hands out
    metadata,           \* detection id -> content of its metadata file
    partitions,         \* <<folder, date>> of each day directory -> the time
                        \* the latest file was saved in it
    file_refs,          \* <<key, detection id>> -> the day directory of the
                        \* path stored under "image_path" or "video_path" in
                        \* the metadata file, or under "path" in the marker
    \* ---- CameraManager
    streams,            \* the CameraStream objects: is_running, error, config
    cameras,            \* _cameras: camera id -> its CameraStream object
    processing_tasks,   \* _processing_tasks: camera id -> its asyncio.Task
    tasks,              \* the _process_camera tasks that have not ended
    next_stream,        \* the next CameraStream object to be constructed
    next_task,          \* the next asyncio.Task to be created
    \* ---- AIInferenceEngine
    confidence_threshold,   \* confidence_threshold, in hundredths
    \* ---- environment
    now,                \* wall clock, seconds
    \* ---- history (not program state)
    ok_sends,           \* queued_at -> requests the collaborator accepted for it
    steps_ok,           \* queued_at -> requests accepted in its latest attempt
    sync_error_logged,  \* "Sync cycle error" was logged by this process
    last_submit,        \* outcome of the latest AlertService.send_alert call
    last_fwd,           \* <<camera, type>> -> time its latest alert was forwarded
    marked_synced,      \* detection ids whose marker mark_synced has removed
    cam_call,           \* the latest CameraManager call and what it returned
    last_frame,         \* the latest frame a camera loop went through
    saved_bytes,        \* detection id -> the bytes save_image was last given
    retention_call,     \* what the latest enforce_retention returned
    clock_steps,        \* how many times the clock was moved by days
    infer_call,         \* what the latest AIInferenceEngine.infer returned
    score_call,         \* the latest safety score computed and its violations
    threshold_call,     \* the latest threshold comparison and its outcome
    blur_call,          \* the latest FaceBlurService call and what it returned
    zone_call,          \* the latest detect_zones call and what it returned
    pip_call            \* the latest _point_in_polygon call and its outcome

alertVars == <<recent_alerts, alert_counts, next_uuid, last_submit, last_fwd>>
queueVars == <<pending_queue, inflight, next_seq, ok_sends, steps_ok>>
loopVars == <<running, loop_pc, cyc_batch, cyc_idx, cyc_step, cyc_processed,
              sync_error_logged>>
syncVars == <<is_connected, session, queueVars, loopVars>>
evidenceVars == <<metadata, partitions, file_refs, saved_bytes,
                  retention_call, clock_steps>>
storeVars == <<pending_sync, metadata_files, next_frame, marked_synced,
               evidenceVars>>
camVars == <<streams, cameras, processing_tasks, tasks, next_stream, next_task,
             cam_call, last_frame>>
geoVars == <<zone_call, pip_call>>
fnVars == <<confidence_threshold, infer_call, score_call, threshold_call,
            blur_call, geoVars>>
vars == <<alertVars, syncVars, storeVars, camVars, now, fnVars>>

\* ------------------------------------------------------------------ helpers
EmptyMap == [k \in {} |-> 0]

MapSet(m, k, v) == [x \in DOMAIN m \cup {k} |-> IF x = k THEN v ELSE m[x]]

\* dict.get(key, default)
MapDrop(m, k) == [x \in DOMAIN m \ {k} |-> m[x]]

MapGet(m, k, default) == IF k \in DOMAIN m THEN m[k] ELSE default

Min(a, b) == IF a < b THEN a ELSE b

Max(a, b) == IF a > b THEN a ELSE b

Range(s) == {s[i] : i \in DOMAIN s}

\* str(uuid.uuid4())
Uuid(n) == "uuid-" \o ToString(n)

\* q["data"].get("id"): None for a payload without an "id" key.
GetId(data) == IF "id" \in DOMAIN data THEN data.id ELSE None

\* ------------------------------------------------------------ AlertService
\* SEVERITY_PRIORITY.get(name, default)
SeverityPriority(name, default) ==
    CASE name = "critical" -> 4
      [] name = "high" -> 3
      [] name = "medium" -> 2
      [] name = "low" -> 1
      [] OTHER -> default

\* key = f"{camera_id}_{detection_type}"
CooldownKey(camera_id, detection_type) == camera_id \o "_" \o detection_type

\* _should_alert with the comparison alert_priority <= threshold_priority.
BelowThresholdInclusive(threshold, severity) ==
    LET threshold_priority == SeverityPriority(threshold, 2)
        alert_priority == SeverityPriority(severity, 1)
    IN  alert_priority <= threshold_priority

\* _should_alert, the severity threshold: alert_priority < threshold_priority
BelowThreshold(threshold, severity) ==
    LET threshold_priority == SeverityPriority(threshold, 2)
        alert_priority == SeverityPriority(severity, 1)
    IN  alert_priority < threshold_priority

\* AlertService._should_alert
ShouldAlert(camera_id, detection_type, severity) ==
    LET key == CooldownKey(camera_id, detection_type)
    IN  IF BelowThreshold(alert_threshold, severity)
          THEN FALSE
          ELSE IF key \in DOMAIN recent_alerts
                  /\ now - recent_alerts[key] < cooldown_seconds
                 THEN FALSE
                 ELSE TRUE

\* -------------------------------------------------------- CloudSyncService
\* _get_session: a session is created when there is none or it is closed.
GetSession(s) == IF s \in {"none", "closed"} THEN "open" ELSE s

\* CloudSyncService.send_alert up to its first suspension: the append, and
\* when connected the session and the POST that it then awaits.
CloudSendAlert(alert_data) ==
    LET item == [type |-> "alert", data |-> alert_data, queued_at |-> next_seq]
    IN  /\ next_seq <= MaxEnq
        /\ is_connected => Cardinality(inflight) < MaxInflight
        /\ pending_queue' = Append(pending_queue, item)
        /\ next_seq' = next_seq + 1
        /\ inflight' = IF is_connected THEN inflight \cup {item} ELSE inflight
        /\ session' = IF is_connected THEN GetSession(session) ELSE session
        /\ UNCHANGED <<is_connected, ok_sends, steps_ok, loopVars>>

\* CloudSyncService.send_alert, resumed: the immediate POST was answered
\* 200/201 and every queued item with the alert's id is filtered out.
SendAlertDelivered(item) ==
    /\ item \in inflight
    /\ inflight' = inflight \ {item}
    /\ ok_sends' = [ok_sends EXCEPT ![item.queued_at] = Min(2, @ + 1)]
    /\ pending_queue' = SelectSeq(pending_queue,
                            LAMBDA q : GetId(q.data) # GetId(item.data))
    /\ UNCHANGED <<next_seq, steps_ok, is_connected, session, loopVars,
                   alertVars, storeVars, camVars, now, fnVars>>

\* CloudSyncService.send_alert, resumed: the immediate POST raised (network
\* error, timeout, a status other than 200/201); the exception is logged.
SendAlertFailed(item) ==
    /\ item \in inflight
    /\ inflight' = inflight \ {item}
    /\ UNCHANGED <<pending_queue, next_seq, ok_sends, steps_ok, is_connected,
                   session, loopVars, alertVars, storeVars, camVars, now, fnVars>>

\* CloudSyncService.send_alert called by another caller than AlertService,
\* with a payload that carries no "id" (alert_data: Dict[str, Any]).
ApiSendAlert(camera_id) ==
    /\ CloudSendAlert([camera_id |-> camera_id])
    /\ UNCHANGED <<alertVars, storeVars, camVars, now, fnVars>>

\* CloudSyncService.upload_evidence: the append, while fewer than limit
\* items have been appended.
AppendEvidence(detection_id, presigned_url, limit) ==
    LET item == [type |-> "evidence",
                 data |-> [path |-> detection_id,
                           metadata |-> [detection_id |-> detection_id],
                           presigned_url |-> presigned_url],
                 queued_at |-> next_seq]
    IN  /\ next_seq <= limit
        /\ pending_queue' = Append(pending_queue, item)
        /\ next_seq' = next_seq + 1
        /\ UNCHANGED <<inflight, ok_sends, steps_ok, is_connected, session,
                       loopVars, alertVars, storeVars, camVars, now, fnVars>>

\* CloudSyncService.upload_evidence
UploadEvidence(detection_id, presigned_url) ==
    AppendEvidence(detection_id, presigned_url, MaxEnq)

\* CloudSyncService.upload_evidence, called while a backlog builds up.
UploadBacklog(detection_id, presigned_url) ==
    AppendEvidence(detection_id, presigned_url, MaxBacklog)

\* -------------------------------------------------- AlertService.send_alert
NoSubmit ==
    [camera_id |-> "", type |-> "", severity |-> "", has_prev |-> FALSE,
     elapsed |-> 0, outcome |-> "none"]

\* What the latest call did, with the time elapsed since the latest alert
\* forwarded for the same (camera_id, primary violation type).
SubmitRecord(camera_id, type, severity, outcome) ==
    LET pair == <<camera_id, type>>
    IN  [camera_id |-> camera_id, type |-> type, severity |-> severity,
         has_prev |-> pair \in DOMAIN last_fwd,
         elapsed |-> IF pair \in DOMAIN last_fwd THEN now - last_fwd[pair] ELSE 0,
         outcome |-> outcome]

\* send_alert counting a suppressed submission in _alert_counts.
SuppressedCounted(camera_id, primary_violation, severity) ==
    LET key == CooldownKey(camera_id, primary_violation)
    IN  /\ last_submit' = SubmitRecord(camera_id, primary_violation, severity,
                                       "suppressed")
        /\ alert_counts' = MapSet(alert_counts, key,
                                  MapGet(alert_counts, key, 0) + 1)
        /\ UNCHANGED <<recent_alerts, next_uuid, last_fwd, syncVars>>

\* send_alert refreshing the cooldown time of a suppressed submission.
SuppressedRefreshed(camera_id, primary_violation, severity) ==
    LET key == CooldownKey(camera_id, primary_violation)
    IN  /\ last_submit' = SubmitRecord(camera_id, primary_violation, severity,
                                       "suppressed")
        /\ recent_alerts' = MapSet(recent_alerts, key, now)
        /\ UNCHANGED <<alert_counts, next_uuid, last_fwd, syncVars>>

\* send_alert when _should_alert is False: a debug line, then return.
Suppressed(camera_id, primary_violation, severity) ==
    /\ last_submit' = SubmitRecord(camera_id, primary_violation, severity,
                                   "suppressed")
    /\ UNCHANGED <<recent_alerts, alert_counts, next_uuid, last_fwd, syncVars>>

\* The counter written from a value read before a suspension: the
\* increments of the submissions still suspended on their POST are lost.
CountAlertStale(key) ==
    LET others == {q \in inflight :
                     /\ "type" \in DOMAIN q.data
                     /\ CooldownKey(q.data.camera_id, q.data.type) = key}
    IN  MapSet(alert_counts, key,
               Max(0, MapGet(alert_counts, key, 0) - Cardinality(others)) + 1)

\* self._alert_counts[key] += 1, with no suspension between the read and
\* the write.
CountAlert(key) == MapSet(alert_counts, key, MapGet(alert_counts, key, 0) + 1)

\* AlertService.get_alert_stats: sum(self._alert_counts.values())
RECURSIVE SumCounts(_, _)
SumCounts(counts, keys) ==
    IF keys = {}
      THEN 0
      ELSE LET k == CHOOSE x \in keys : TRUE
           IN  counts[k] + SumCounts(counts, keys \ {k})

TotalAlertsSent == SumCounts(alert_counts, DOMAIN alert_counts)

\* AlertService.send_alert up to the suspension inside cloud_sync.send_alert.
AlertSubmit(detection_id, camera_id, violations, severity) ==
    IF violations = <<>>
      THEN /\ last_submit' = SubmitRecord(camera_id, "", severity, "empty")
           /\ UNCHANGED <<recent_alerts, alert_counts, next_uuid, last_fwd,
                          syncVars>>
      ELSE LET primary_violation == violations[1].class
               key == CooldownKey(camera_id, primary_violation)
               alert_data == [id |-> Uuid(next_uuid),
                              detection_id |-> detection_id,
                              camera_id |-> camera_id,
                              type |-> primary_violation,
                              severity |-> severity,
                              acknowledged |-> FALSE]
           IN  IF ~ShouldAlert(camera_id, primary_violation, severity)
                 THEN Suppressed(camera_id, primary_violation, severity)
                 ELSE /\ recent_alerts' = MapSet(recent_alerts, key, now)
                      /\ alert_counts' = CountAlert(key)
                      /\ next_uuid' = next_uuid + 1
                      /\ CloudSendAlert(alert_data)
                      /\ last_fwd' = MapSet(last_fwd,
                                        <<camera_id, primary_violation>>, now)
                      /\ last_submit' = SubmitRecord(camera_id,
                                primary_violation, severity, "sent")

\* AlertService.clear_cooldowns
ClearCooldowns ==
    /\ recent_alerts # EmptyMap
    /\ recent_alerts' = EmptyMap
    /\ last_fwd' = EmptyMap
    /\ UNCHANGED <<alert_counts, next_uuid, last_submit, syncVars, storeVars, camVars,
                   now, fnVars>>

\* ------------------------------------------------------- Camera Orchestrator
\* AIInferenceEngine.infer: frame_id = f"{camera_id}_{utcnow()}"
FrameId(camera_id, n) == camera_id \o "_" \o ToString(n)

\* hashlib.sha256(image_data).hexdigest()
Sha256(image_data) == "sha256:" \o image_data

\* datetime.utcnow().strftime("%Y/%m/%d"): the date of a time, as the number
\* of the day.
DateFolder(t) == t \div DaySeconds

\* datetime.strptime(f"{year}/{month}/{day}", "%Y/%m/%d"): midnight of the
\* day.
ParseDate(date) == date * DaySeconds

\* b"simulated_image_data", the bytes _handle_violation saves.
SimulatedImage == "simulated_image_data"

\* The keys of a metadata file that the store writes: "file_hash" (None
\* when the key is missing) and whether "video_path" is there.
Metadata(hash, video_path) == [file_hash |-> hash, video_path |-> video_path]

\* The paths in the metadata file that save_image writes from the caller's
\* metadata: "image_path" is the file of today, and no "video_path" is left.
ImageRefs(refs, detection_id) ==
    MapSet(MapDrop(refs, <<"video_path", detection_id>>),
           <<"image_path", detection_id>>, DateFolder(now))

\* LocalStorageService.save_image: the image in the day directory of today,
\* the metadata file with the hash of the bytes, and the sync marker.
SaveImage(image_data, detection_id) ==
    /\ partitions' = MapSet(partitions, <<"images", DateFolder(now)>>, now)
    /\ metadata_files' = metadata_files \cup {detection_id}
    /\ metadata' = MapSet(metadata, detection_id,
                          Metadata(Sha256(image_data), FALSE))
    /\ pending_sync' = pending_sync \cup {detection_id}
    /\ file_refs' = MapSet(ImageRefs(file_refs, detection_id),
                           <<"path", detection_id>>, DateFolder(now))
    /\ saved_bytes' = MapSet(saved_bytes, detection_id, image_data)
    /\ UNCHANGED <<marked_synced, retention_call, clock_steps>>

\* LocalStorageService.save_image raising at one of its writes: "image"
\* (mkdir or the image file), "metadata" (the metadata file, the image being
\* written) or "marker" (the sync marker, image and metadata being written).
SaveImageFailed(image_data, detection_id, stage) ==
    /\ partitions' = IF stage = "image"
                       THEN partitions
                       ELSE MapSet(partitions, <<"images", DateFolder(now)>>, now)
    /\ saved_bytes' = IF stage = "image"
                        THEN saved_bytes
                        ELSE MapSet(saved_bytes, detection_id, image_data)
    /\ metadata_files' = IF stage = "marker"
                           THEN metadata_files \cup {detection_id}
                           ELSE metadata_files
    /\ metadata' = IF stage = "marker"
                     THEN MapSet(metadata, detection_id,
                                 Metadata(Sha256(image_data), FALSE))
                     ELSE metadata
    /\ file_refs' = IF stage = "marker"
                      THEN ImageRefs(file_refs, detection_id)
                      ELSE file_refs
    /\ UNCHANGED <<pending_sync, marked_synced, retention_call, clock_steps>>

\* CameraManager._handle_violation for a frame with one violation: the
\* evidence is saved, then the alert is submitted.
HandleViolation(camera_id, class, severity) ==
    LET detection_id == FrameId(camera_id, next_frame)
        violations == <<[class |-> class, severity |-> severity]>>
    IN  /\ next_frame <= MaxFrames
        /\ next_frame' = next_frame + 1
        /\ SaveImage(SimulatedImage, detection_id)
        /\ AlertSubmit(detection_id, camera_id, violations, severity)
        /\ UNCHANGED <<now, fnVars>>

\* The order of str on the severity names, which max() compares:
\* "critical" < "high" < "low" < "medium".
StrOrder(name) ==
    CASE name = "critical" -> 1
      [] name = "high" -> 2
      [] name = "low" -> 3
      [] name = "medium" -> 4

\* max(v["severity"] for v in metadata["violations"]): the first of the
\* greatest strings.
RECURSIVE MaxStr(_)
MaxStr(violations) ==
    IF Len(violations) = 1
      THEN violations[1].severity
      ELSE LET rest == MaxStr(Tail(violations))
           IN  IF StrOrder(rest) > StrOrder(violations[1].severity)
                 THEN rest
                 ELSE violations[1].severity

\* CameraManager._handle_violation for a frame with these violations: the
\* evidence is saved, then the alert is submitted with the severity that
\* max() gives.
HandleViolations(camera_id, violations) ==
    LET detection_id == FrameId(camera_id, next_frame)
    IN  /\ next_frame <= MaxFrames
        /\ next_frame' = next_frame + 1
        /\ SaveImage(SimulatedImage, detection_id)
        /\ AlertSubmit(detection_id, camera_id, violations,
                       MaxStr(violations))
        /\ UNCHANGED <<camVars, now, fnVars>>

\* LocalStorageService.mark_synced
MarkSynced(detection_id) ==
    /\ detection_id \in pending_sync
    /\ pending_sync' = pending_sync \ {detection_id}
    /\ marked_synced' = marked_synced \cup {detection_id}
    /\ file_refs' = MapDrop(file_refs, <<"path", detection_id>>)
    /\ UNCHANGED <<metadata_files, next_frame, metadata, partitions,
                   saved_bytes, retention_call, clock_steps, alertVars,
                   syncVars, camVars, now, fnVars>>

\* save_video_clip writing the caller's metadata whether or not a metadata
\* file exists.
SaveVideoClipOverwrite(detection_id, meta_hash) ==
    /\ partitions' = MapSet(partitions, <<"videos", DateFolder(now)>>, now)
    /\ metadata_files' = metadata_files \cup {detection_id}
    /\ metadata' = MapSet(metadata, detection_id, Metadata(meta_hash, TRUE))
    /\ file_refs' = MapSet(MapDrop(file_refs, <<"image_path", detection_id>>),
                           <<"video_path", detection_id>>, DateFolder(now))
    /\ UNCHANGED <<pending_sync, marked_synced, saved_bytes, retention_call,
                   clock_steps>>

\* LocalStorageService.save_video_clip: the clip is written in the day
\* directory of today; the metadata file is updated, its other keys kept,
\* or created from the caller's metadata (whose "file_hash", if any, is
\* meta_hash) when there is none; no marker is written.
SaveVideoClip(detection_id, meta_hash) ==
    /\ partitions' = MapSet(partitions, <<"videos", DateFolder(now)>>, now)
    /\ metadata_files' = metadata_files \cup {detection_id}
    /\ metadata' = IF detection_id \in metadata_files
                     THEN [metadata EXCEPT ![detection_id].video_path = TRUE]
                     ELSE MapSet(metadata, detection_id,
                                 Metadata(meta_hash, TRUE))
    /\ file_refs' = MapSet(file_refs, <<"video_path", detection_id>>,
                           DateFolder(now))
    /\ UNCHANGED <<pending_sync, marked_synced, saved_bytes, retention_call,
                   clock_steps>>

\* LocalStorageService.get_evidence: the metadata file's content, or None.
GetEvidence(detection_id) ==
    IF detection_id \in metadata_files
      THEN metadata[detection_id]
      ELSE Metadata(None, FALSE)

\* What enforce_retention returned.
RetentionRecord(called, deleted_count) ==
    [called |-> called, deleted_count |-> deleted_count]

\* LocalStorageService.enforce_retention: every day directory of images/
\* and videos/ whose date parses to a time before the cutoff is removed.
EnforceRetention ==
    LET cutoff_date == now - retention_days * DaySeconds
        deleted == {p \in DOMAIN partitions : ParseDate(p[2]) < cutoff_date}
    IN  /\ partitions' = [p \in DOMAIN partitions \ deleted |-> partitions[p]]
        /\ retention_call' = RetentionRecord(TRUE, Cardinality(deleted))
        /\ UNCHANGED <<pending_sync, metadata_files, next_frame, marked_synced,
                       metadata, file_refs, saved_bytes, clock_steps, alertVars,
                       syncVars, camVars, now, fnVars>>

\* The wall clock is moved on by d seconds.
AdvanceClock(d) ==
    /\ clock_steps < MaxClockSteps
    /\ now' = now + d
    /\ clock_steps' = clock_steps + 1
    /\ UNCHANGED <<pending_sync, metadata_files, next_frame, marked_synced,
                   metadata, partitions, file_refs, saved_bytes,
                   retention_call, alertVars, syncVars, camVars, fnVars>>

\* The wall clock advances.
Tick ==
    /\ now + TickSeconds <= MaxTime
    /\ now' = now + TickSeconds
    /\ UNCHANGED <<alertVars, syncVars, storeVars, camVars, fnVars>>

\* ------------------------------------------------- the background sync loop
\* The first request of an item's send routine: _send_alert is one POST,
\* _upload_evidence asks for an upload URL unless one was supplied.
FirstStep(item) ==
    IF item.type = "evidence"
      THEN IF item.data.presigned_url = None THEN "url" ELSE "put"
      ELSE "send"

\* The request after which the send routine returns.
LastStep(item) == IF item.type = "evidence" THEN "confirm" ELSE "send"

\* _upload_evidence: upload-url, then PUT, then confirm.
NextStep(step) == IF step = "url" THEN "put" ELSE "confirm"

\* list.remove(item): the first element equal to item is removed.
RemoveFirst(queue, item) ==
    LET i == CHOOSE k \in 1..Len(queue) :
                 /\ queue[k] = item
                 /\ \A j \in 1..(k - 1) : queue[j] # item
    IN  SubSeq(queue, 1, i - 1) \o SubSeq(queue, i + 1, Len(queue))

\* _process_queue: for item in processed: self._pending_queue.remove(item).
\* list.remove raises ValueError for an item that is no longer in the list;
\* the items after it stay in the queue. (The rest of the loop is applied
\* to the list as it is after the removal, a value and not an expression.)
RECURSIVE RemoveProcessed(_, _)
RemoveProcessed(queue, processed) ==
    IF processed = <<>>
      THEN [queue |-> queue, error |-> FALSE]
      ELSE IF Head(processed) \in Range(queue)
             THEN CHOOSE r \in
                     {RemoveProcessed(q, rest) :
                         q \in {RemoveFirst(queue, Head(processed))},
                         rest \in {Tail(processed)}} : TRUE
             ELSE [queue |-> queue, error |-> TRUE]

\* A slice that takes the whole list.
BatchWhole(queue) == queue

\* _process_queue: self._pending_queue[:10], a new list of the first items.
Batch(queue) == SubSeq(queue, 1, Min(BatchSize, Len(queue)))

\* _sync_cycle up to its first suspension: the session, then GET /health.
BeginCycle ==
    /\ session' = GetSession(session)
    /\ loop_pc' = "probe"

\* The loop task leaves _process_queue: its locals are gone.
DropLocals ==
    /\ cyc_batch' = <<>>
    /\ cyc_idx' = 0
    /\ cyc_step' = "none"
    /\ cyc_processed' = <<>>

\* _sync_cycle returned: the loop task suspends in asyncio.sleep.
CycleReturned ==
    /\ loop_pc' = "sleep"
    /\ DropLocals

\* start_sync_loop with no handler around the cycle: the exception ends
\* the task.
CycleRaisedUncaught ==
    /\ is_connected' = FALSE
    /\ sync_error_logged' = TRUE
    /\ loop_pc' = "done"
    /\ DropLocals

\* start_sync_loop: _sync_cycle raised; the handler logs the error and marks
\* the service disconnected, then the task suspends in asyncio.sleep.
CycleRaised ==
    /\ is_connected' = FALSE
    /\ sync_error_logged' = TRUE
    /\ loop_pc' = "sleep"
    /\ DropLocals

\* start_sync_loop, scheduled for the first time.
LoopStart ==
    /\ loop_pc = "init"
    /\ running' = TRUE
    /\ BeginCycle
    /\ UNCHANGED <<is_connected, queueVars, cyc_batch, cyc_idx, cyc_step,
                   cyc_processed, sync_error_logged, alertVars, storeVars,
                   camVars, now, fnVars>>

\* _sync_cycle after GET /health was answered with a status: the queue, when
\* it is not empty, is processed; _process_queue suspends on the first
\* request of the first item of the batch.
AfterProbe(connected) ==
    /\ loop_pc = "probe"
    /\ is_connected' = connected
    /\ IF pending_queue # <<>>
         THEN LET batch == Batch(pending_queue)
              IN  /\ session' = GetSession(session)
                  /\ loop_pc' = "proc"
                  /\ cyc_batch' = batch
                  /\ cyc_idx' = 1
                  /\ cyc_step' = FirstStep(batch[1])
                  /\ cyc_processed' = <<>>
                  /\ steps_ok' = [steps_ok EXCEPT ![batch[1].queued_at] = {}]
         ELSE /\ CycleReturned
              /\ UNCHANGED <<session, steps_ok>>
    /\ UNCHANGED <<pending_queue, inflight, next_seq, ok_sends, running,
                   sync_error_logged, alertVars, storeVars, camVars, now, fnVars>>

\* GET /health answered 200.
ProbeOk == AfterProbe(TRUE)

\* GET /health answered with another status: resp.status == 200 is False.
ProbeNon200 == AfterProbe(FALSE)

\* GET /health raised (network error, timeout): _sync_cycle returns.
ProbeException ==
    /\ loop_pc = "probe"
    /\ is_connected' = FALSE
    /\ CycleReturned
    /\ UNCHANGED <<session, queueVars, running, sync_error_logged, alertVars,
                   storeVars, camVars, now, fnVars>>

\* _process_queue leaves the item in flight, processed being the list so far
\* and accepted the requests the collaborator has accepted: the next item's
\* send routine starts, or after the last item the processed items are
\* removed and the cycle ends.
ProcNext(processed, accepted) ==
    IF cyc_idx < Len(cyc_batch)
      THEN /\ cyc_idx' = cyc_idx + 1
           /\ cyc_step' = FirstStep(cyc_batch[cyc_idx + 1])
           /\ cyc_processed' = processed
           /\ steps_ok' = [accepted EXCEPT
                              ![cyc_batch[cyc_idx + 1].queued_at] = {}]
           /\ UNCHANGED <<pending_queue, is_connected, loop_pc, cyc_batch,
                          sync_error_logged>>
      ELSE LET r == RemoveProcessed(pending_queue, processed)
           IN  /\ pending_queue' = r.queue
               /\ steps_ok' = accepted
               /\ IF r.error
                    THEN CycleRaised
                    ELSE /\ CycleReturned
                         /\ UNCHANGED <<is_connected, sync_error_logged>>

\* The request in flight for the current item was accepted.
ProcStepOk ==
    /\ loop_pc = "proc"
    /\ LET item == cyc_batch[cyc_idx]
           accepted == [steps_ok EXCEPT ![item.queued_at] = @ \cup {cyc_step}]
       IN  IF cyc_step = LastStep(item)
             THEN /\ ok_sends' = [ok_sends EXCEPT
                                     ![item.queued_at] = Min(2, @ + 1)]
                  /\ ProcNext(Append(cyc_processed, item), accepted)
             ELSE /\ cyc_step' = NextStep(cyc_step)
                  /\ steps_ok' = accepted
                  /\ UNCHANGED <<ok_sends, pending_queue, is_connected,
                                 loop_pc, cyc_batch, cyc_idx, cyc_processed,
                                 sync_error_logged>>
    /\ UNCHANGED <<inflight, next_seq, session, running, alertVars,
                   storeVars, camVars,
                   now, fnVars>>

\* The request in flight for the current item raised: the exception is
\* logged and the loop goes on with the next item.
ProcStepFail ==
    /\ loop_pc = "proc"
    /\ ProcNext(cyc_processed, steps_ok)
    /\ UNCHANGED <<ok_sends, inflight, next_seq, session, running, alertVars,
                   storeVars, camVars, now, fnVars>>

\* asyncio.sleep(sync_interval) returns: while self._running.
LoopWake ==
    /\ loop_pc = "sleep"
    /\ IF running
         THEN BeginCycle
         ELSE /\ loop_pc' = "done"
              /\ UNCHANGED session
    /\ UNCHANGED <<is_connected, queueVars, running, cyc_batch, cyc_idx,
                   cyc_step, cyc_processed, sync_error_logged, alertVars,
                   storeVars, camVars, now, fnVars>>

\* CloudSyncService.stop, called by the shutdown of main.lifespan.
Stop ==
    /\ loop_pc # "init"
    /\ running
    /\ running' = FALSE
    /\ session' = IF session = "open" THEN "closed" ELSE session
    /\ UNCHANGED <<is_connected, queueVars, loop_pc, cyc_batch, cyc_idx,
                   cyc_step, cyc_processed, sync_error_logged, alertVars,
                   storeVars, camVars, now, fnVars>>

\* CloudSyncService.send_heartbeat: the session is obtained, the POST is made
\* and its outcome returned as a boolean; no other state is touched.
SendHeartbeat ==
    /\ session' = GetSession(session)
    /\ UNCHANGED <<is_connected, queueVars, loopVars, alertVars, storeVars,
                   camVars, now, fnVars>>

\* CloudSyncService.get_policy_updates: the session is obtained, the GET is
\* made and its body or None returned; no other state is touched.
GetPolicyUpdates ==
    /\ session' = GetSession(session)
    /\ UNCHANGED <<is_connected, queueVars, loopVars, alertVars, storeVars,
                   camVars, now, fnVars>>

\* ------------------------------------------------------------ CameraManager
\* del d[k]
MapDel(m, k) == [x \in DOMAIN m \ {k} |-> m[x]]

\* CameraConfig.fps: int = 15
DefaultFps == 15

\* CameraStream.__init__ with a CameraConfig of the given fps.
NewStreamConfig(camera_id, fps) ==
    [camera_id |-> camera_id, is_running |-> FALSE, error |-> None,
     fps |-> fps]

\* CameraStream.__init__
NewStream(camera_id) == NewStreamConfig(camera_id, DefaultFps)

\* asyncio.create_task(self._process_camera(camera_id)): the coroutine has
\* not run yet; it will read self._cameras[camera_id], the stream s.
NewTask(camera_id, s) ==
    [camera_id |-> camera_id, stream |-> s, pc |-> "created",
     cancelled |-> FALSE, stopped |-> FALSE]

\* CameraStream.start
StreamStart(st, s) == [st EXCEPT ![s].is_running = TRUE, ![s].error = None]

\* CameraStream.stop
StreamStop(st, s) == [st EXCEPT ![s].is_running = FALSE]

\* Task.cancel(): a request; the task ends when it is next scheduled. On a
\* task that has ended it does nothing.
Cancel(tk, t) ==
    IF t \in DOMAIN tk THEN [tk EXCEPT ![t].cancelled = TRUE] ELSE tk

\* The tasks that have not ended.
LiveTasks == DOMAIN tasks

\* What a CameraManager call returned.
CallRecord(op, result) == [op |-> op, result |-> result]

\* CameraManager.start_camera for a registered camera: the stream is started
\* and a new task is created and stored under the camera id.
DoStartCamera(st, camera_id) ==
    LET s == IF camera_id \in DOMAIN cameras THEN cameras[camera_id]
             ELSE next_stream
    IN  /\ next_task <= MaxTasks
        /\ streams' = StreamStart(st, s)
        /\ tasks' = MapSet(tasks, next_task, NewTask(camera_id, s))
        /\ processing_tasks' = MapSet(processing_tasks, camera_id, next_task)
        /\ next_task' = next_task + 1

\* The CameraStream objects that are still referenced, by the registry or by
\* the frame of a task that has not ended; the others are freed.
Referenced(st, cams, tk) ==
    [s \in {cams[c] : c \in DOMAIN cams} \cup {tk[t].stream : t \in DOMAIN tk}
       |-> st[s]]

\* History: the loops of a camera that had not ended when stop_camera
\* returned for it are marked as stopped.
MarkStopped(tk, camera_id) ==
    [t \in DOMAIN tk |->
       IF tk[t].camera_id = camera_id
         THEN [tk[t] EXCEPT !.stopped = TRUE]
         ELSE tk[t]]

\* CameraManager.stop_camera: the stored task is cancelled and forgotten, the
\* registered stream is stopped.
TasksAfterStop(tk, camera_id) ==
    MarkStopped(IF camera_id \in DOMAIN processing_tasks
                  THEN Cancel(tk, processing_tasks[camera_id])
                  ELSE tk,
                camera_id)

StreamsAfterStop(st, camera_id) ==
    IF camera_id \in DOMAIN cameras
      THEN StreamStop(st, cameras[camera_id])
      ELSE st

\* add_camera with no check of the id: a new stream replaces the one that
\* is registered.
AddCameraReplace(camera_id) ==
    /\ streams' = MapSet(streams, next_stream, NewStream(camera_id))
    /\ cameras' = MapSet(cameras, camera_id, next_stream)
    /\ next_stream' = next_stream + 1
    /\ cam_call' = CallRecord("add_camera", "true")
    /\ UNCHANGED <<processing_tasks, tasks, next_task>>

\* add_camera with an id that is registered: a warning, return False.
AddCameraDuplicate(camera_id) ==
    /\ cam_call' = CallRecord("add_camera", "false")
    /\ UNCHANGED <<streams, cameras, processing_tasks, tasks, next_stream,
                   next_task>>

\* CameraManager.add_camera with a CameraConfig of the given fps.
AddCameraConfig(camera_id, enabled, fps) ==
    /\ IF camera_id \in DOMAIN cameras
         THEN AddCameraDuplicate(camera_id)
         ELSE /\ next_stream <= MaxStreams
              /\ cameras' = MapSet(cameras, camera_id, next_stream)
              /\ next_stream' = next_stream + 1
              /\ cam_call' = CallRecord("add_camera", "true")
              /\ LET st == MapSet(streams, next_stream,
                                  NewStreamConfig(camera_id, fps))
                 IN  IF enabled
                       THEN DoStartCamera(st, camera_id)
                       ELSE /\ streams' = st
                            /\ UNCHANGED <<processing_tasks, tasks, next_task>>
    /\ UNCHANGED <<last_frame, alertVars, syncVars, storeVars, now, fnVars>>

\* CameraManager.add_camera
AddCamera(camera_id, enabled) ==
    /\ IF camera_id \in DOMAIN cameras
         THEN AddCameraDuplicate(camera_id)
         ELSE /\ next_stream <= MaxStreams
              /\ cameras' = MapSet(cameras, camera_id, next_stream)
              /\ next_stream' = next_stream + 1
              /\ cam_call' = CallRecord("add_camera", "true")
              /\ LET st == MapSet(streams, next_stream, NewStream(camera_id))
                 IN  IF enabled
                       THEN DoStartCamera(st, camera_id)
                       ELSE /\ streams' = st
                            /\ UNCHANGED <<processing_tasks, tasks, next_task>>
    /\ UNCHANGED <<last_frame, alertVars, syncVars, storeVars, now, fnVars>>

\* remove_camera with an id that is not registered: return False.
RemoveUnknown(camera_id) ==
    /\ cam_call' = CallRecord("remove_camera", "false")
    /\ UNCHANGED <<streams, cameras, processing_tasks, tasks, next_stream,
                   next_task>>

\* remove_camera deleting the registry entry without stopping the camera:
\* the stored task is neither cancelled nor forgotten.
RemoveCameraKeepTask(camera_id) ==
    /\ IF camera_id \notin DOMAIN cameras
         THEN RemoveUnknown(camera_id)
         ELSE /\ cameras' = MapDel(cameras, camera_id)
              /\ streams' = Referenced(streams, cameras', tasks)
              /\ cam_call' = CallRecord("remove_camera", "true")
              /\ UNCHANGED <<tasks, processing_tasks, next_stream, next_task>>
    /\ UNCHANGED <<last_frame, alertVars, syncVars, storeVars, now, fnVars>>

\* CameraManager.remove_camera
RemoveCamera(camera_id) ==
    /\ IF camera_id \notin DOMAIN cameras
         THEN RemoveUnknown(camera_id)
         ELSE /\ tasks' = TasksAfterStop(tasks, camera_id)
              /\ processing_tasks' = MapDel(processing_tasks, camera_id)
              /\ cameras' = MapDel(cameras, camera_id)
              /\ streams' = Referenced(StreamsAfterStop(streams, camera_id),
                                       cameras', tasks')
              /\ cam_call' = CallRecord("remove_camera", "true")
              /\ UNCHANGED <<next_stream, next_task>>
    /\ UNCHANGED <<last_frame, alertVars, syncVars, storeVars, now, fnVars>>

\* start_camera with its check after the task creation: the task of the
\* unknown camera is created and stored before the failure is raised.
StartUnchecked(camera_id) ==
    /\ tasks' = MapSet(tasks, next_task, NewTask(camera_id, next_stream))
    /\ processing_tasks' = MapSet(processing_tasks, camera_id, next_task)
    /\ next_task' = next_task + 1
    /\ cam_call' = CallRecord("start_camera", "not_found")
    /\ UNCHANGED <<streams, cameras, next_stream>>

\* start_camera with an id that is not registered: ValueError.
StartUnknown(camera_id) ==
    /\ cam_call' = CallRecord("start_camera", "not_found")
    /\ UNCHANGED <<streams, cameras, processing_tasks, tasks, next_stream,
                   next_task>>

\* CameraManager.start_camera
StartCamera(camera_id) ==
    /\ IF camera_id \notin DOMAIN cameras
         THEN StartUnknown(camera_id)
         ELSE /\ DoStartCamera(streams, camera_id)
              /\ cam_call' = CallRecord("start_camera", "ok")
              /\ UNCHANGED <<cameras, next_stream>>
    /\ UNCHANGED <<last_frame, alertVars, syncVars, storeVars, now, fnVars>>

\* CameraManager.stop_camera
StopCamera(camera_id) ==
    /\ tasks' = TasksAfterStop(tasks, camera_id)
    /\ processing_tasks' = MapDel(processing_tasks, camera_id)
    /\ streams' = StreamsAfterStop(streams, camera_id)
    /\ cam_call' = CallRecord("stop_camera", "ok")
    /\ UNCHANGED <<cameras, next_stream, next_task, last_frame, alertVars,
                   syncVars, storeVars, now, fnVars>>

\* CameraManager.stop_all: stop_camera for every registered camera, one after
\* the other; none of the calls suspends.
StopAll ==
    /\ tasks' = [t \in DOMAIN tasks |->
                   LET marked == IF tasks[t].camera_id \in DOMAIN cameras
                                   THEN MarkStopped(tasks, tasks[t].camera_id)
                                   ELSE tasks
                   IN  IF \E c \in DOMAIN cameras :
                             /\ c \in DOMAIN processing_tasks
                             /\ processing_tasks[c] = t
                         THEN Cancel(marked, t)[t]
                         ELSE marked[t]]
    /\ processing_tasks' = [c \in DOMAIN processing_tasks \ DOMAIN cameras |->
                              processing_tasks[c]]
    /\ streams' = [s \in DOMAIN streams |->
                     IF \E c \in DOMAIN cameras : cameras[c] = s
                       THEN [streams[s] EXCEPT !.is_running = FALSE]
                       ELSE streams[s]]
    /\ cam_call' = CallRecord("stop_all", "ok")
    /\ UNCHANGED <<cameras, next_stream, next_task, last_frame, alertVars,
                   syncVars, storeVars, now, fnVars>>

\* The frame a camera loop went through: whether one of its detections,
\* after the zone check, is a violation, and whether _handle_violation ran.
FrameRecord(violation, handled) ==
    [violation |-> violation, handled |-> handled]

\* A task can run an iteration of _process_camera: no cancellation is
\* pending and the stream it holds is running.
CanIterate(t) ==
    /\ ~tasks[t].cancelled
    /\ streams[tasks[t].stream].is_running
    /\ streams[tasks[t].stream].fps # 0

\* _process_camera scheduled for the first time with fps 0 in its
\* configuration: frame_interval = 1.0 / config.fps raises
\* ZeroDivisionError before the loop and the exception ends the task.
TaskRaisesAtStart(t) ==
    /\ tasks[t].pc = "created"
    /\ ~tasks[t].cancelled
    /\ streams[tasks[t].stream].fps = 0
    /\ tasks' = MapDel(tasks, t)
    /\ streams' = Referenced(streams, cameras, tasks')
    /\ UNCHANGED <<cameras, processing_tasks, next_stream, next_task,
                   cam_call, last_frame, alertVars, syncVars, storeVars, now, fnVars>>

\* _process_camera leaves its loop: CancelledError was thrown into the await
\* it was suspended in, or "while stream.is_running" is false.
TaskEnds(t) ==
    /\ tasks[t].cancelled \/ ~streams[tasks[t].stream].is_running
    /\ tasks' = MapDel(tasks, t)
    /\ streams' = Referenced(streams, cameras, tasks')
    /\ UNCHANGED <<cameras, processing_tasks, next_stream, next_task,
                   cam_call, last_frame, alertVars, syncVars, storeVars, now, fnVars>>

\* An iteration whose frame has no violation; the task then sleeps for
\* frame_interval.
IterClean(t) ==
    /\ CanIterate(t)
    /\ tasks' = [tasks EXCEPT ![t].pc = "sleep"]
    /\ last_frame' = FrameRecord(FALSE, FALSE)
    /\ UNCHANGED <<streams, cameras, processing_tasks, next_stream, next_task,
                   cam_call, alertVars, syncVars, storeVars, now, fnVars>>

\* An iteration whose inference found a violation: result.violations_found
\* is positive and _handle_violation runs.
IterViolation(t) ==
    /\ CanIterate(t)
    /\ HandleViolation(tasks[t].camera_id, "no_hardhat", "high")
    /\ tasks' = [tasks EXCEPT ![t].pc = "sleep"]
    /\ last_frame' = FrameRecord(TRUE, TRUE)
    /\ UNCHANGED <<streams, cameras, processing_tasks, next_stream, next_task,
                   cam_call>>

\* An iteration whose save_image raised, the alert being submitted all the
\* same.
IterSaveFailedAlerted(t, stage) ==
    LET camera_id == tasks[t].camera_id
        detection_id == FrameId(camera_id, next_frame)
    IN  /\ CanIterate(t)
        /\ next_frame <= MaxFrames
        /\ next_frame' = next_frame + 1
        /\ SaveImageFailed(SimulatedImage, detection_id, stage)
        /\ AlertSubmit(detection_id, camera_id,
                       <<[class |-> "no_hardhat", severity |-> "high"]>>, "high")
        /\ streams' = [streams EXCEPT ![tasks[t].stream].error = "error"]
        /\ tasks' = [tasks EXCEPT ![t].pc = "backoff"]
        /\ last_frame' = FrameRecord(TRUE, FALSE)
        /\ UNCHANGED <<cameras, processing_tasks, next_stream, next_task,
                       cam_call, now, fnVars>>

\* An iteration whose inference found a violation and whose save_image
\* raised: the exception leaves _handle_violation before send_alert is
\* called, the handler of the loop records it in the stream and the task
\* sleeps for a second.
IterSaveFailed(t, stage) ==
    LET detection_id == FrameId(tasks[t].camera_id, next_frame)
    IN  /\ CanIterate(t)
        /\ next_frame <= MaxFrames
        /\ next_frame' = next_frame + 1
        /\ SaveImageFailed(SimulatedImage, detection_id, stage)
        /\ streams' = [streams EXCEPT ![tasks[t].stream].error = "error"]
        /\ tasks' = [tasks EXCEPT ![t].pc = "backoff"]
        /\ last_frame' = FrameRecord(TRUE, FALSE)
        /\ UNCHANGED <<cameras, processing_tasks, next_stream, next_task,
                       cam_call, alertVars, syncVars, now, fnVars>>

\* An iteration whose inference found no violation and whose person is in
\* an exclusion zone: detect_zones' exclusion_zone_breach is appended to
\* result.detections, result.violations_found stays what infer computed (0).
IterZoneOnly(t) ==
    /\ CanIterate(t)
    /\ tasks' = [tasks EXCEPT ![t].pc = "sleep"]
    /\ last_frame' = FrameRecord(TRUE, FALSE)
    /\ UNCHANGED <<streams, cameras, processing_tasks, next_stream, next_task,
                   cam_call, alertVars, syncVars, storeVars, now, fnVars>>

\* _process_camera with no handler for Exception: the exception ends the
\* task.
IterRaisedUncaught(t) ==
    /\ CanIterate(t)
    /\ tasks' = MapDel(tasks, t)
    /\ UNCHANGED <<streams, cameras, processing_tasks, next_stream, next_task,
                   cam_call, last_frame, alertVars, syncVars, storeVars, now, fnVars>>

\* An iteration in which something raised: the handler records the error in
\* the stream the task holds and the task sleeps for a second.
IterRaised(t) ==
    /\ CanIterate(t)
    /\ streams' = [streams EXCEPT ![tasks[t].stream].error = "error"]
    /\ tasks' = [tasks EXCEPT ![t].pc = "backoff"]
    /\ UNCHANGED <<cameras, processing_tasks, next_stream, next_task,
                   cam_call, last_frame, alertVars, syncVars, storeVars, now, fnVars>>

\* -------------------------------------------------------- AIInferenceEngine
\* Detection(class_name, confidence, bbox, is_violation, severity); the
\* confidence is in hundredths.
Detection(class_name, confidence, is_violation, severity) ==
    [class_name |-> class_name, confidence |-> confidence,
     is_violation |-> is_violation, severity |-> severity]

\* infer, one pass of "for v in violations": the penalty of v's severity.
Penalise(safety_score, v) ==
    IF v.severity = "critical" THEN safety_score - 25
    ELSE IF v.severity = "high" THEN safety_score - 15
    ELSE IF v.severity = "medium" THEN safety_score - 10
    ELSE safety_score - 5

\* infer: safety_score = 100.0, then the loop over the violations.
RECURSIVE ScoreLoop(_, _)
ScoreLoop(safety_score, violations) ==
    IF violations = <<>>
      THEN safety_score
      ELSE ScoreLoop(Penalise(safety_score, Head(violations)),
                     Tail(violations))

\* infer with no floor under the score.
SafetyScoreUnfloored(violations) == ScoreLoop(100, violations)

\* infer: the safety score of a frame's violations, max(0, safety_score).
SafetyScore(violations) == Max(0, ScoreLoop(100, violations))

\* _simulate_detections: a person with confidence 0.95 + random() * 0.04;
\* when random() > 0.7 a no_hardhat with 0.88 + random() * 0.10; when
\* random() > 0.8 a no_safety_vest with 0.85 + random() * 0.12.
SimulateDetections ==
    {<<Detection("person", p, FALSE, "low")>>
       \o (IF hardhat THEN <<Detection("no_hardhat", h, TRUE, "high")>>
                      ELSE <<>>)
       \o (IF vest THEN <<Detection("no_safety_vest", v, TRUE, "medium")>>
                   ELSE <<>>) :
       p \in {95, 98}, hardhat \in BOOLEAN, h \in {88, 93, 97},
       vest \in BOOLEAN, v \in {85, 90, 96}}

\* InferenceResult(detections, ..., violations_found, safety_score)
InferenceResult(called, detections, violations_found, safety_score) ==
    [called |-> called, detections |-> detections,
     violations_found |-> violations_found, safety_score |-> safety_score]

\* AIInferenceEngine.__init__ with a confidence threshold.
ConstructEngine(threshold) ==
    /\ confidence_threshold' = threshold
    /\ infer_call' = InferenceResult(FALSE, <<>>, 0, 100)
    /\ UNCHANGED <<score_call, threshold_call, blur_call, geoVars, alertVars, syncVars,
                   storeVars, camVars, now>>

\* AIInferenceEngine.infer: the detections are the simulated ones.
Infer ==
    \E detections \in SimulateDetections :
       LET violations == SelectSeq(detections, LAMBDA d : d.is_violation)
       IN  /\ infer_call' = InferenceResult(TRUE, detections,
                                Len(violations), SafetyScore(violations))
           /\ UNCHANGED <<confidence_threshold, score_call, threshold_call,
                          blur_call, geoVars, alertVars, syncVars, storeVars, camVars,
                          now>>

\* The safety score infer computes, for any list of violations.
ScoreRecord(called, violations, safety_score) ==
    [called |-> called, violations |-> violations,
     safety_score |-> safety_score]

ScoreViolations(violations) ==
    /\ score_call' = ScoreRecord(TRUE, violations, SafetyScore(violations))
    /\ UNCHANGED <<confidence_threshold, infer_call, threshold_call,
                   blur_call, geoVars, alertVars, syncVars, storeVars, camVars, now>>

\* ------------------------------------- AIInferenceEngine, exclusion zones
\* A polygon vertex, {"x": x, "y": y}.
Point(x, y) == [x |-> x, y |-> y]

\* The edge test evaluating its quotient for every edge.
DividesAlways(y, pi, pj) == TRUE

\* _point_in_polygon, the edge test: `and` evaluates its right operand, and
\* with it the quotient, only when (yi > y) != (yj > y).
Divides(y, pi, pj) == (pi.y > y) # (pj.y > y)

\* x < (xj - xi) * (y - yi) / (yj - yi) + xi, a true division, for yj # yi.
LeftOfEdge(x, y, pi, pj) ==
    LET d == pj.y - pi.y
        n == (pj.x - pi.x) * (y - pi.y)
    IN  IF d > 0 THEN (x - pi.x) * d < n ELSE (x - pi.x) * d > n

\* The state of the loop: inside, whether ZeroDivisionError was raised, and
\* history: the edges (by the index i) that toggled inside.
NoEdges == [inside |-> FALSE, raised |-> FALSE, toggled |-> {}]

\* One pass of the for loop of _point_in_polygon, for the edge from
\* polygon[j] to polygon[i].
EdgeStep(acc, x, y, polygon, i, j) ==
    LET pi == polygon[i]
        pj == polygon[j]
    IN  IF acc.raised
          THEN acc
          ELSE IF Divides(y, pi, pj)
                 THEN IF pj.y - pi.y = 0
                        THEN [acc EXCEPT !.raised = TRUE]
                        ELSE IF (pi.y > y) # (pj.y > y)
                                /\ LeftOfEdge(x, y, pi, pj)
                               THEN [acc EXCEPT !.inside = ~acc.inside,
                                                !.toggled = @ \cup {i}]
                               ELSE acc
                 ELSE acc

\* j = n - 1; for i in range(n): ...; j = i
RECURSIVE EdgeLoop(_, _, _, _, _, _)
EdgeLoop(acc, x, y, polygon, i, j) ==
    IF i > Len(polygon)
      THEN acc
      ELSE CHOOSE r \in {EdgeLoop(a, x, y, polygon, i + 1, i) :
                            a \in {EdgeStep(acc, x, y, polygon, i, j)}} : TRUE

\* AIInferenceEngine._point_in_polygon
PointInPolygonRun(x, y, polygon) ==
    EdgeLoop(NoEdges, x, y, polygon, 1, Len(polygon))

PointInPolygon(x, y, polygon) == PointInPolygonRun(x, y, polygon).inside

\* What a _point_in_polygon call was given and how it ended.
PipRecord(called, x, y, polygon, run) ==
    [called |-> called, x |-> x, y |-> y, polygon |-> polygon, run |-> run]

\* _point_in_polygon, called.
PointInPolygonCall(x, y, polygon) ==
    /\ pip_call' = PipRecord(TRUE, x, y, polygon,
                             PointInPolygonRun(x, y, polygon))
    /\ UNCHANGED <<confidence_threshold, infer_call, score_call,
                   threshold_call, blur_call, zone_call, alertVars, syncVars,
                   storeVars, camVars, now>>

\* Detection(class_name, confidence, bbox, is_violation, severity), the
\* confidence in hundredths.
DetectionAt(class_name, confidence, bbox, is_violation, severity) ==
    [class_name |-> class_name, confidence |-> confidence, bbox |-> bbox,
     is_violation |-> is_violation, severity |-> severity]

\* A zone definition: {"zone_type": ..., "polygon": [...]}.
Zone(zone_type, polygon) == [zone_type |-> zone_type, polygon |-> polygon]

\* center_x, center_y of detect_zones: floor divisions.
Center(bbox) ==
    Point((bbox[1] + bbox[3]) \div 2, (bbox[2] + bbox[4]) \div 2)

\* detect_zones, the inner loop: for zone in zones.
RECURSIVE ZoneLoop(_, _)
ZoneLoop(person, zones) ==
    IF zones = <<>>
      THEN <<>>
      ELSE LET zone == Head(zones)
               center == Center(person.bbox)
               found ==
                 IF zone.zone_type = "exclusion"
                    /\ PointInPolygon(center.x, center.y, zone.polygon)
                   THEN <<DetectionAt("exclusion_zone_breach", 99,
                                      person.bbox, TRUE, "critical")>>
                   ELSE <<>>
           IN  found \o ZoneLoop(person, Tail(zones))

\* detect_zones, the outer loop: for person in person_detections.
RECURSIVE PersonLoop(_, _)
PersonLoop(person_detections, zones) ==
    IF person_detections = <<>>
      THEN <<>>
      ELSE ZoneLoop(Head(person_detections), zones)
             \o PersonLoop(Tail(person_detections), zones)

\* What detect_zones was given, its detections list when it returned, and
\* what it returned.
ZoneRecord(called, detections, zones, detections_after, result) ==
    [called |-> called, detections |-> detections, zones |-> zones,
     detections_after |-> detections_after, result |-> result]

\* AIInferenceEngine.detect_zones
DetectZones(detections, zones) ==
    LET person_detections ==
          SelectSeq(detections, LAMBDA d : d.class_name = "person")
    IN  /\ zone_call' = ZoneRecord(TRUE, detections, zones, detections,
                                   PersonLoop(person_detections, zones))
        /\ UNCHANGED <<confidence_threshold, infer_call, score_call,
                       threshold_call, blur_call, pip_call, alertVars,
                       syncVars, storeVars, camVars, now>>

\* ------------------------------------------------ AlertService, threshold
ThresholdRecord(called, threshold, severity, rejected) ==
    [called |-> called, threshold |-> threshold, severity |-> severity,
     rejected |-> rejected]

\* _should_alert's threshold comparison, for a service constructed with
\* alert_threshold = threshold.
CheckThreshold(threshold, severity) ==
    /\ threshold_call' = ThresholdRecord(TRUE, threshold, severity,
                              BelowThreshold(threshold, severity))
    /\ UNCHANGED <<confidence_threshold, infer_call, score_call, blur_call,
                   geoVars, alertVars, syncVars, storeVars, camVars, now>>

\* ---------------------------------------------------------- FaceBlurService
\* An np.ndarray: the object it is and its shape (rows, columns).
Array(obj, shape) == [obj |-> obj, shape |-> shape]

\* The frame a caller hands to the service.
InputFrame == Array("frame", <<FrameH, FrameW>>)

\* frame.copy(): a new array with the same content.
Copy(frame) == Array("copy", frame.shape)

\* A region (x, y, w, h).
Region(x, y, w, h) == [x |-> x, y |-> y, w |-> w, h |-> h]

\* The coordinates blur_faces and blur_regions compute for a region:
\* x = max(0, x), y = max(0, y), x2 = min(frame.shape[1], x + w),
\* y2 = min(frame.shape[0], y + h).
Clamp(frame, r) ==
    LET x == Max(0, r.x)
        y == Max(0, r.y)
    IN  [x |-> x, y |-> y,
         x2 |-> Min(frame.shape[2], x + r.w),
         y2 |-> Min(frame.shape[1], y + r.h)]

\* The boxes of the copy that are blurred: if x2 > x and y2 > y.
RECURSIVE Blurred(_, _)
Blurred(frame, regions) ==
    IF regions = <<>>
      THEN <<>>
      ELSE LET b == Clamp(frame, Head(regions))
           IN  (IF b.x2 > b.x /\ b.y2 > b.y THEN <<b>> ELSE <<>>)
                 \o Blurred(frame, Tail(regions))

\* What a call returned: the array it was given, the array it returned and
\* the boxes it blurred in the returned array.
BlurRecord(op, regions, frame, result, boxes) ==
    [op |-> op, regions |-> regions, frame |-> frame, result |-> result,
     boxes |-> boxes]

\* blur_faces once the faces are known: "if not faces: return frame", else
\* the copy with its boxes blurred.
BlurFacesOf(faces) ==
    /\ blur_call' =
          IF faces = <<>>
            THEN BlurRecord("blur_faces", faces, InputFrame, InputFrame, <<>>)
            ELSE BlurRecord("blur_faces", faces, InputFrame, Copy(InputFrame),
                            Blurred(InputFrame, faces))
    /\ UNCHANGED <<confidence_threshold, infer_call, score_call,
                   threshold_call, geoVars, alertVars, syncVars, storeVars, camVars,
                   now>>

\* detect_faces: no face, or one face inside the frame.
DetectFaces ==
    {<<>>} \cup {<<Region(x, y, 1, 1)>> : x \in 0..(FrameW - 1),
                                          y \in 0..(FrameH - 1)}

\* FaceBlurService.blur_faces(frame): the faces are detected.
BlurFacesDetected == \E faces \in DetectFaces : BlurFacesOf(faces)

\* FaceBlurService.blur_faces(frame, faces)
BlurFaces(faces) == BlurFacesOf(faces)

\* FaceBlurService.blur_regions
BlurRegions(regions) ==
    /\ blur_call' = BlurRecord("blur_regions", regions, InputFrame,
                               Copy(InputFrame), Blurred(InputFrame, regions))
    /\ UNCHANGED <<confidence_threshold, infer_call, score_call,
                   threshold_call, geoVars, alertVars, syncVars, storeVars, camVars,
                   now>>

\* ------------------------------------------------------------ the process
\* AIInferenceEngine.__init__(confidence_threshold=0.85) as main.py builds
\* it; no inference, score, threshold comparison or blur has happened.
InitFn ==
    /\ confidence_threshold = 85
    /\ infer_call = InferenceResult(FALSE, <<>>, 0, 100)
    /\ score_call = ScoreRecord(FALSE, <<>>, 100)
    /\ threshold_call = ThresholdRecord(FALSE, "", "", FALSE)
    /\ blur_call = BlurRecord("none", <<>>, InputFrame, InputFrame, <<>>)
    /\ zone_call = ZoneRecord(FALSE, <<>>, <<>>, <<>>, <<>>)
    /\ pip_call = PipRecord(FALSE, 0, 0, <<>>, NoEdges)

\* No CameraManager call has returned yet.
NoCall == [op |-> "none", result |-> "none"]

\* No camera loop has gone through a frame yet.
NoFrame == [violation |-> FALSE, handled |-> FALSE]

\* CameraManager.__init__: no camera, no task.
InitCameras ==
    /\ streams = EmptyMap
    /\ cameras = EmptyMap
    /\ processing_tasks = EmptyMap
    /\ tasks = EmptyMap
    /\ next_stream = 1
    /\ next_task = 1
    /\ cam_call = NoCall
    /\ last_frame = NoFrame

\* What main.lifespan constructs: AlertService.__init__ and
\* CloudSyncService.__init__, with the sync task created and not yet run.
InitMemory ==
    /\ recent_alerts = EmptyMap
    /\ alert_counts = EmptyMap
    /\ is_connected = FALSE
    /\ pending_queue = <<>>
    /\ running = FALSE
    /\ session = "none"
    /\ loop_pc = "init"
    /\ cyc_batch = <<>>
    /\ cyc_idx = 0
    /\ cyc_step = "none"
    /\ cyc_processed = <<>>
    /\ inflight = {}

Init ==
    /\ InitMemory
    /\ next_uuid = 1
    /\ next_seq = 1
    /\ pending_sync = {}
    /\ metadata_files = {}
    /\ next_frame = 1
    /\ now = 0
    /\ ok_sends = [k \in 1..Max(MaxEnq, MaxBacklog) |-> 0]
    /\ steps_ok = [k \in 1..Max(MaxEnq, MaxBacklog) |-> {}]
    /\ sync_error_logged = FALSE
    /\ last_submit = NoSubmit
    /\ last_fwd = EmptyMap
    /\ marked_synced = {}
    /\ metadata = EmptyMap
    /\ partitions = EmptyMap
    /\ file_refs = EmptyMap
    /\ saved_bytes = EmptyMap
    /\ retention_call = RetentionRecord(FALSE, 0)
    /\ clock_steps = 0
    /\ InitCameras
    /\ InitFn

\* The process ends and is started again: every object is constructed anew,
\* the disk and the clock are what they were.
Restart ==
    /\ recent_alerts' = EmptyMap
    /\ alert_counts' = EmptyMap
    /\ is_connected' = FALSE
    /\ pending_queue' = <<>>
    /\ running' = FALSE
    /\ session' = "none"
    /\ loop_pc' = "init"
    /\ cyc_batch' = <<>>
    /\ cyc_idx' = 0
    /\ cyc_step' = "none"
    /\ cyc_processed' = <<>>
    /\ inflight' = {}
    /\ sync_error_logged' = FALSE
    /\ last_submit' = NoSubmit
    /\ last_fwd' = EmptyMap
    /\ streams' = EmptyMap
    /\ cameras' = EmptyMap
    /\ processing_tasks' = EmptyMap
    /\ tasks' = EmptyMap
    /\ cam_call' = NoCall
    /\ last_frame' = NoFrame
    /\ UNCHANGED <<next_uuid, next_seq, ok_sends, steps_ok, storeVars,
                   next_stream, next_task, now, fnVars>>

\* AlertService.send_alert called on its own (the Alert Dispatcher's submit).
Submit(detection_id, camera_id, violations, severity) ==
    /\ AlertSubmit(detection_id, camera_id, violations, severity)
    /\ UNCHANGED <<storeVars, camVars, now, fnVars>>

Violation(class, severity) == [class |-> class, severity |-> severity]

\* The background sync loop's own steps.
LoopStep ==
    \/ LoopStart
    \/ ProbeOk
    \/ ProbeNon200
    \/ ProbeException
    \/ ProcStepOk
    \/ ProcStepFail
    \/ LoopWake

\* The Cloud Sync Queue with its callers, the clock standing still.
Next ==
    \/ Submit("det-0", "cam", <<Violation("no_hardhat", "high")>>, "high")
    \/ ApiSendAlert("cam")
    \/ \E item \in inflight : SendAlertDelivered(item)
    \/ \E item \in inflight : SendAlertFailed(item)
    \/ \E u \in {None, "s3-url"} : UploadEvidence("evidence-0", u)
    \/ LoopStep
    \/ Stop
    \/ SendHeartbeat
    \/ GetPolicyUpdates
    \/ Restart

Spec == Init /\ [][Next]_vars

\* The Alert Dispatcher under every submission, the sync loop not scheduled.
NextAlert ==
    \/ \E c \in Cameras, t \in Types, s \in Severities :
          Submit("det-0", c, <<Violation(t, s)>>, s)
    \/ \E c \in Cameras : Submit("det-0", c, <<>>, "high")
    \/ ClearCooldowns
    \/ Tick
    \/ Restart

SpecAlert == Init /\ [][NextAlert]_vars

\* Several camera tasks submit while the service is connected: a submission
\* is suspended on its immediate POST while the others run.
NextConc ==
    \/ \E c \in Cameras :
          Submit("det-0", c, <<Violation("no_hardhat", "high")>>, "high")
    \/ \E item \in inflight : SendAlertDelivered(item)
    \/ \E item \in inflight : SendAlertFailed(item)
    \/ LoopStart
    \/ ProbeOk
    \/ ClearCooldowns
    \/ Tick

SpecConc == Init /\ [][NextConc]_vars

\* The sync loop with the camera pipeline, run fairly: the event loop resumes
\* the loop task whenever its await completes (every request has a timeout,
\* the sleep ends), and the collaborator, asked again and again, accepts.
NextLive ==
    \/ /\ next_seq <= MaxLiveEnq
       /\ HandleViolation("cam", "no_hardhat", "high")
       /\ UNCHANGED camVars
    \/ \E d \in metadata_files :
          next_seq <= MaxLiveEnq /\ UploadEvidence(d, None)
    \/ \E d \in pending_sync : MarkSynced(d)
    \/ \E item \in inflight : SendAlertDelivered(item)
    \/ \E item \in inflight : SendAlertFailed(item)
    \/ LoopStep
    \/ Stop

\* The Camera Orchestrator under every call of its API, its camera loops
\* scheduled in any order; the sync loop is not scheduled, so the service is
\* disconnected and send_alert returns without suspending.
\* The streams and tasks created so far.
CamObjects == (next_stream - 1) + (next_task - 1)

NextCam ==
    \/ \E c \in Cameras, e \in BOOLEAN :
          AddCamera(c, e) /\ CamObjects' <= MaxCamObjects
    \/ \E c \in Cameras : RemoveCamera(c)
    \/ \E c \in Cameras :
          StartCamera(c) /\ CamObjects' <= MaxCamObjects
    \/ \E c \in Cameras : StopCamera(c)
    \/ StopAll
    \/ \E t \in DOMAIN tasks : TaskEnds(t)
    \/ \E t \in DOMAIN tasks : IterClean(t)
    \/ \E t \in DOMAIN tasks : IterRaised(t)

SpecCam == Init /\ [][NextCam]_vars

\* The camera loops frame by frame: cameras are added and stopped, and every
\* iteration meets any of the frames the inference engine and the zone check
\* can produce.
NextFrame ==
    \/ \E c \in Cameras : AddCamera(c, TRUE)
    \/ \E c \in Cameras : StopCamera(c)
    \/ \E t \in DOMAIN tasks : TaskEnds(t)
    \/ \E t \in DOMAIN tasks : IterClean(t)
    \/ \E t \in DOMAIN tasks : IterViolation(t)
    \/ \E t \in DOMAIN tasks : IterZoneOnly(t)
    \/ \E t \in DOMAIN tasks : IterRaised(t)

SpecFrame == Init /\ [][NextFrame]_vars

\* Cameras registered with any frame rate, fps 0 included, then started and
\* stopped, their loops scheduled in any order.
FpsInputs == {0, DefaultFps}

NextFps ==
    \/ \E c \in Cameras, e \in BOOLEAN, fps \in FpsInputs :
          AddCameraConfig(c, e, fps) /\ CamObjects' <= MaxCamObjects
    \/ \E c \in Cameras : StartCamera(c) /\ CamObjects' <= MaxCamObjects
    \/ \E c \in Cameras : StopCamera(c)
    \/ \E t \in DOMAIN tasks : TaskEnds(t)
    \/ \E t \in DOMAIN tasks : TaskRaisesAtStart(t)
    \/ \E t \in DOMAIN tasks : IterClean(t)
    \/ \E t \in DOMAIN tasks : IterRaised(t)

SpecFps == Init /\ [][NextFps]_vars

\* The stages at which save_image can raise.
SaveStages == {"image", "metadata", "marker"}

\* Camera loops whose frames have a violation, the Evidence Store failing
\* or not, as time goes by.
NextPersist ==
    \/ \E c \in Cameras : AddCamera(c, TRUE) /\ CamObjects' <= MaxCamObjects
    \/ \E c \in Cameras : StopCamera(c)
    \/ \E t \in DOMAIN tasks : TaskEnds(t)
    \/ \E t \in DOMAIN tasks : IterClean(t)
    \/ \E t \in DOMAIN tasks : IterViolation(t)
    \/ \E t \in DOMAIN tasks, stage \in SaveStages : IterSaveFailed(t, stage)
    \/ Tick

SpecPersist == Init /\ [][NextPersist]_vars

\* One camera that is started, stopped and started again through the API,
\* its loops scheduled in any order.
NextStop ==
    \/ AddCamera("cam", TRUE)
    \/ StartCamera("cam")
    \/ StopCamera("cam")
    \/ RemoveCamera("cam")
    \/ \E t \in DOMAIN tasks : TaskEnds(t)
    \/ \E t \in DOMAIN tasks : IterClean(t)
    \/ \E t \in DOMAIN tasks : IterViolation(t)

SpecStop == Init /\ [][NextStop]_vars

\* One camera's alerts on their way to the collaborator: the camera loop
\* awaits send_alert, so it submits the alert of its next detection only
\* when the previous call has returned; the detections differ in type, so
\* no cooldown suppresses them.
NextOrder ==
    \/ \E t \in Types :
          /\ inflight = {}
          /\ Submit(FrameId("cam", next_seq), "cam",
                    <<Violation(t, "high")>>, "high")
    \/ \E item \in inflight : SendAlertDelivered(item)
    \/ \E item \in inflight : SendAlertFailed(item)
    \/ LoopStep

SpecOrder == Init /\ [][NextOrder]_vars

\* A backlog of evidence uploads, longer than a batch, and the sync loop;
\* the collaborator is healthy and fails requests of the first items of a
\* batch only.
NextBatch ==
    \/ UploadBacklog("evidence-0", "s3-url")
    \/ LoopStart
    \/ ProbeOk
    \/ ProcStepOk
    \/ cyc_idx <= MaxFailIdx /\ ProcStepFail
    \/ LoopWake

SpecBatch == Init /\ [][NextBatch]_vars

\* A presigned URL that the object store refuses: session.put answers 403
\* and _upload_evidence raises, in every cycle.
ExpiredUrl == "expired-url"

\* The collaborator accepts every request of an item whose URL it does not
\* refuse.
Accepts(item) == item.data.presigned_url # ExpiredUrl

\* upload_evidence called for a backlog: the uploads with a refused URL are
\* the first ones queued.
UploadStarve(presigned_url) ==
    /\ presigned_url = ExpiredUrl =>
          /\ Len(pending_queue) = next_seq - 1
          /\ \A i \in 1..Len(pending_queue) : ~Accepts(pending_queue[i])
    /\ UploadBacklog("evidence-0", presigned_url)

\* The sync loop with a collaborator that is reachable and answers every
\* request of an item in the same way in every cycle.
StarveStepOk == loop_pc = "proc" /\ Accepts(cyc_batch[cyc_idx]) /\ ProcStepOk

StarveStepFail ==
    loop_pc = "proc" /\ ~Accepts(cyc_batch[cyc_idx]) /\ ProcStepFail

StarveLoopStep ==
    \/ LoopStart
    \/ ProbeOk
    \/ StarveStepOk
    \/ StarveStepFail
    \/ LoopWake

NextStarve ==
    \/ \E u \in {ExpiredUrl, "s3-url"} : UploadStarve(u)
    \/ StarveLoopStep

\* The event loop schedules the loop task whenever its await completes: every
\* request has a timeout and the sleep ends. The loop task is at one place
\* at a time, so that at most one of its steps is enabled.
SpecStarve ==
    /\ Init
    /\ [][NextStarve]_vars
    /\ WF_vars(LoopStart)
    /\ WF_vars(ProbeOk)
    /\ WF_vars(StarveStepOk)
    /\ WF_vars(StarveStepFail)
    /\ WF_vars(LoopWake)

\* The detection ids the Evidence Store is called with.
DetectionIds == {FrameId(c, n) : c \in Cameras, n \in 1..MaxFrames}
                  \cup {"evidence-0", "evidence-1"}

\* The image bytes the Evidence Store is called with.
ImageBytes == {SimulatedImage, "jpeg"}

\* The Evidence Store under every call of its API.
NextStore ==
    \/ \E b \in ImageBytes, d \in DetectionIds :
          SaveImage(b, d) /\ UNCHANGED <<next_frame, alertVars, syncVars,
                                         camVars, now, fnVars>>
    \/ \E d \in DetectionIds, h \in {None} \cup {Sha256(b) : b \in ImageBytes} :
          SaveVideoClip(d, h) /\ UNCHANGED <<next_frame, alertVars, syncVars,
                                             camVars, now, fnVars>>
    \/ \E d \in DetectionIds : MarkSynced(d)

SpecStore == Init /\ [][NextStore]_vars

\* The Evidence Store called for two detection ids with any bytes and any
\* metadata.
NextEvidence ==
    \/ \E b \in ImageBytes, d \in {"evidence-0", "evidence-1"} :
          SaveImage(b, d) /\ UNCHANGED <<next_frame, alertVars, syncVars,
                                         camVars, now, fnVars>>
    \/ \E d \in {"evidence-0", "evidence-1"},
          h \in {None} \cup {Sha256(b) : b \in ImageBytes} :
          SaveVideoClip(d, h) /\ UNCHANGED <<next_frame, alertVars, syncVars,
                                             camVars, now, fnVars>>
    \/ \E d \in {"evidence-0", "evidence-1"} : MarkSynced(d)

SpecEvidence == Init /\ [][NextEvidence]_vars

\* The clock moves on by a quarter of a day, or by a quarter of a day less
\* than the retention period.
ClockJumps == {DaySeconds \div 4, retention_days * DaySeconds - DaySeconds \div 4}

\* The Evidence Store over the days: files are saved, the clock moves on and
\* the retention sweep runs at any time of the day.
NextRetention ==
    \/ SaveImage(SimulatedImage, "evidence-0")
         /\ UNCHANGED <<next_frame, alertVars, syncVars, camVars, now, fnVars>>
    \/ SaveVideoClip("evidence-0", None)
         /\ UNCHANGED <<next_frame, alertVars, syncVars, camVars, now, fnVars>>
    \/ \E d \in ClockJumps : AdvanceClock(d)
    \/ EnforceRetention

SpecRetention == Init /\ [][NextRetention]_vars

\* The severities of SEVERITY_PRIORITY and of Detection.severity.
Levels == {"critical", "high", "medium", "low"}

\* The inference engine, constructed with any threshold and run on any
\* frame.
NextInfer ==
    \/ \E threshold \in {50, 85, 90, 99} : ConstructEngine(threshold)
    \/ Infer

SpecInfer == Init /\ [][NextInfer]_vars

\* The safety score, computed for a frame with no violation and for the
\* latest list of violations with one more violation of any severity.
NextScore ==
    \/ ScoreViolations(<<>>)
    \/ \E s \in Levels :
          /\ Len(score_call.violations) < MaxViolations
          /\ ScoreViolations(Append(score_call.violations,
                                    Detection("violation", 99, TRUE, s)))

SpecScore == Init /\ [][NextScore]_vars

\* The regions the blur service is called with: inside the frame, across
\* its edges, outside of it and empty.
Regions ==
    {Region(x, 0, w, h) : x \in {-3, -1, FrameW}, w \in {0, 2},
                          h \in {1, FrameH + 1}}

\* The lists of regions of a call: no region, or the list of the latest
\* call with one more region.
RegionLists ==
    {<<>>} \cup {Append(blur_call.regions, r) :
                   r \in IF Len(blur_call.regions) < MaxRegions
                           THEN Regions ELSE {}}

\* The pure functions of the Alert Dispatcher and of the Redactor, under
\* every input.
NextFn ==
    \/ \E threshold \in Levels, severity \in Levels :
          CheckThreshold(threshold, severity)
    \/ BlurFacesDetected
    \/ \E faces \in RegionLists : BlurFaces(faces)
    \/ \E regions \in RegionLists : BlurRegions(regions)

SpecFn == Init /\ [][NextFn]_vars

\* The violations of a frame: one or two detections with is_violation, of
\* any class and severity.
AllSeverities == {"critical", "high", "medium", "low"}

FrameViolations ==
    LET one == {[class |-> t, severity |-> s] : t \in Types, s \in AllSeverities}
    IN  {<<v>> : v \in one} \cup {<<v, w>> : v \in one, w \in one}

\* Frames with violations, handled as time goes by.
NextSeverity ==
    \/ \E c \in Cameras, vs \in FrameViolations : HandleViolations(c, vs)
    \/ Tick

SpecSeverity == Init /\ [][NextSeverity]_vars

\* The integer points polygons are made of and are tested against.
GridPoints == {Point(x, y) : x \in 0..MaxCoord, y \in 0..MaxCoord}

\* _point_in_polygon under every point and every polygon: the latest
\* polygon, or that polygon with one more vertex.
NextPip ==
    \/ \E p \in GridPoints : PointInPolygonCall(p.x, p.y, pip_call.polygon)
    \/ \E v \in GridPoints :
          /\ Len(pip_call.polygon) < MaxVertices
          /\ PointInPolygonCall(pip_call.x, pip_call.y,
                                Append(pip_call.polygon, v))

SpecPip == Init /\ [][NextPip]_vars

\* A square zone and a square zone away from every person.
Square == <<Point(0, 0), Point(2, 0), Point(2, 2), Point(0, 2)>>
FarSquare == <<Point(5, 5), Point(7, 5), Point(7, 7), Point(5, 7)>>

\* Zone definitions as set_zones receives them.
ZoneInputs ==
    {Zone(t, polygon) : t \in {"exclusion", "restricted"},
                        polygon \in {Square, FarSquare}}

\* Detections of persons inside and outside the square, and of equipment.
DetectionInputs ==
    {DetectionAt("person", 95, bbox, FALSE, "low") :
        bbox \in {<<0, 0, 2, 2>>, <<1, 1, 2, 2>>, <<2, 2, 4, 4>>}}
      \cup {DetectionAt("no_hardhat", 88, <<0, 0, 2, 2>>, TRUE, "high")}

\* detect_zones under every list of detections and of zones: the latest
\* lists, one of them with one more element.
NextZones ==
    \/ \E d \in DetectionInputs :
          /\ Len(zone_call.detections) < MaxDetections
          /\ DetectZones(Append(zone_call.detections, d), zone_call.zones)
    \/ \E z \in ZoneInputs :
          /\ Len(zone_call.zones) < MaxZones
          /\ DetectZones(zone_call.detections, Append(zone_call.zones, z))

SpecZones == Init /\ [][NextZones]_vars

LiveSpec ==
    /\ Init
    /\ [][NextLive]_vars
    /\ WF_vars(LoopStep)
    /\ SF_vars(ProbeOk)
    /\ SF_vars(ProcStepOk)

\* ---------------------------------------------------------------- claims
InQueue(item) == item \in Range(pending_queue)

\* The items of the queue that the step takes out of it.
Removed(item) == item \in Range(pending_queue) /\ item \notin Range(pending_queue')

\* item.get("attempt_count", 0)
AttemptCount(item) ==
    IF "attempt_count" \in DOMAIN item THEN item.attempt_count ELSE 0

PassesThreshold(severity) ==
    SeverityPriority(severity, 1) >= SeverityPriority(alert_threshold, 2)

\* stop() has been called on the started service.
Stopped == loop_pc # "init" /\ ~running

\* C1: a submission that passes the threshold, made after an alert was
\* forwarded for the same (camera_id, primary violation type), is suppressed
\* when less than cooldown_seconds have elapsed since that alert and is
\* forwarded once cooldown_seconds have elapsed.
C1_CooldownWindow ==
    (/\ last_submit.outcome \in {"sent", "suppressed"}
     /\ PassesThreshold(last_submit.severity)
     /\ last_submit.has_prev)
    => (last_submit.outcome = "sent"
          <=> last_submit.elapsed >= cooldown_seconds)

\* C2: whatever send_alert, upload_evidence and the sync cycles do, an item
\* leaves the pending queue only in a step after which the collaborator has
\* accepted that very item.
C2_RemovedOnlyWhenDelivered ==
    [][Restart \/ \A q \in Range(pending_queue) :
                     Removed(q) => ok_sends'[q.queued_at] >= 1]_vars

\* C3: the collaborator accepts each queued item at most once, and an item a
\* cycle delivered is out of the queue when that cycle ends.
C3_NoDuplicateDelivery ==
    /\ \A k \in DOMAIN ok_sends : ok_sends[k] <= 1
    /\ \A q \in Range(pending_queue) :
          ok_sends[q.queued_at] >= 1
            => loop_pc = "proc" /\ q \in Range(cyc_processed)

\* C4: when the PUT of an evidence item fails during a cycle, the item is
\* still queued, with its attempt_count one higher.
C4_FailedUploadCounted ==
    [][(/\ ProcStepFail
        /\ cyc_batch[cyc_idx].type = "evidence"
        /\ cyc_step = "put")
       => \E q \in Range(pending_queue') :
             /\ q.queued_at = cyc_batch[cyc_idx].queued_at
             /\ AttemptCount(q) = AttemptCount(cyc_batch[cyc_idx]) + 1]_vars

\* C5: a cycle whose GET /health raised or was answered with a status other
\* than 200 invokes no send routine and leaves the queue as it is.
C5_FailFastProbe ==
    [][(ProbeException \/ ProbeNon200)
       => loop_pc' # "proc" /\ pending_queue' = pending_queue]_vars

\* C6: send_alert never drops an alert: when its immediate POST failed, the
\* alert is in the pending queue on return (at the very least it is not
\* lost: it is queued or the collaborator has accepted it).
C6_FailedSendStaysQueued ==
    [][\A item \in inflight :
          SendAlertFailed(item)
            => InQueue(item)' \/ ok_sends[item.queued_at] >= 1]_vars

\* The requests _upload_evidence makes for an item.
RequiredSteps(item) ==
    IF item.data.presigned_url = None
      THEN {"url", "put", "confirm"}
      ELSE {"put", "confirm"}

\* C7: an evidence item leaves the queue only when, within its latest
\* attempt, the upload URL (when none was supplied), the PUT and the
\* confirmation were all accepted; a failed step leaves it queued, and every
\* attempt starts with the first step.
C7_EvidenceAllOrNothing ==
    /\ [][Restart \/ \A q \in Range(pending_queue) :
                        (q.type = "evidence" /\ Removed(q))
                          => RequiredSteps(q) \subseteq steps_ok'[q.queued_at]]_vars
    /\ [][(ProcStepFail /\ cyc_batch[cyc_idx].type = "evidence")
            => cyc_batch[cyc_idx] \in Range(pending_queue')]_vars
    /\ [](loop_pc = "proc" /\ cyc_batch[cyc_idx].type = "evidence"
            /\ steps_ok[cyc_batch[cyc_idx].queued_at] = {}
          => cyc_step = FirstStep(cyc_batch[cyc_idx]))

\* C8: an item that was accepted into the queue and not delivered is still
\* in the queue after a restart of the process.
C8_QueueSurvivesRestart ==
    [][Restart => \A q \in Range(pending_queue) :
                     ok_sends[q.queued_at] = 0 => InQueue(q)']_vars

\* The frame ids the pipeline hands out within the bounds.
FrameIds == {FrameId(c, n) : c \in Cameras, n \in 1..MaxFrames}

\* C9: every evidence record the camera pipeline saved is eventually marked
\* synced, unless the sync loop is stopped.
C9_EvidenceReconciled ==
    \A d \in FrameIds : (d \in pending_sync) ~> (d \notin pending_sync \/ Stopped)

\* C10: the loop task ends only after stop() (no exception of a cycle ends
\* it), it starts a cycle again and again until stop(), and after stop() it
\* starts no cycle and ends.
C10_LoopRunsUntilStopped ==
    /\ [](loop_pc = "done" => Stopped)
    /\ (loop_pc # "init" /\ running) ~> (loop_pc = "probe" \/ Stopped)
    /\ [][Stopped => ~(loop_pc # "probe" /\ loop_pc' = "probe")]_vars
    /\ Stopped ~> (loop_pc = "done")

\* A cycle raised, the loop went on, and stop() then ended it.
C10_Witness == sync_error_logged /\ loop_pc = "done"

\* C11: once stop() has returned, the service holds no open network session,
\* whatever a cycle still in progress, send_alert, send_heartbeat or
\* get_policy_updates do afterwards.
C11_NoOpenSessionAfterStop == Stopped => session # "open"

\* C12: add_camera with an id that is registered returns failure and leaves
\* the registry, every stream's runtime state and every task as they were.
C12_DuplicateAddRejected ==
    [][\A c \in Cameras, e \in BOOLEAN :
          (c \in DOMAIN cameras /\ AddCamera(c, e))
            => /\ cam_call'.result = "false"
               /\ UNCHANGED <<streams, cameras, processing_tasks, tasks>>]_vars

\* A duplicate add_camera has returned failure while the camera was running
\* with its task.
C12_Witness ==
    /\ cam_call = CallRecord("add_camera", "false")
    /\ \E c \in DOMAIN cameras :
          /\ streams[cameras[c]].is_running
          /\ c \in DOMAIN processing_tasks
          /\ processing_tasks[c] \in LiveTasks

\* C13: remove_camera of an unknown id returns failure and start_camera of
\* an unknown id raises not-found; neither changes the registered cameras,
\* the tasks or any stream's runtime state.
C13_UnknownCameraNoEffect ==
    [][\A c \in Cameras :
          /\ (c \notin DOMAIN cameras /\ RemoveCamera(c))
               => /\ cam_call'.result = "false"
                  /\ UNCHANGED <<streams, cameras, processing_tasks, tasks>>
          /\ (c \notin DOMAIN cameras /\ StartCamera(c))
               => /\ cam_call'.result = "not_found"
                  /\ UNCHANGED <<streams, cameras, processing_tasks, tasks>>]_vars

\* start_camera of an unknown id has raised while another camera was
\* running with its task.
C13_Witness ==
    /\ cam_call = CallRecord("start_camera", "not_found")
    /\ \E c \in DOMAIN cameras :
          /\ streams[cameras[c]].is_running
          /\ c \in DOMAIN processing_tasks

\* The loops of a camera that are alive: its tasks that have not ended and
\* have no cancellation pending.
LiveLoops(camera_id) ==
    {t \in LiveTasks : tasks[t].camera_id = camera_id /\ ~tasks[t].cancelled}

\* C14: after any sequence of add_camera, start_camera, stop_camera and
\* remove_camera each camera has at most one live processing loop.
C14_AtMostOneLoop == \A c \in Cameras : Cardinality(LiveLoops(c)) <= 1

\* C15: an exception raised inside an iteration of a camera's loop is
\* recorded in the error field of that camera's registered stream and the
\* loop backs off without ending; no other stream, no other task and no
\* registry entry changes; a loop ends only when it is cancelled or its
\* stream is stopped.
C15_FailureIsolated ==
    /\ [][\A t \in DOMAIN tasks :
             IterRaised(t)
               => /\ t \in DOMAIN tasks'
                  /\ tasks'[t].pc = "backoff"
                  /\ tasks[t].camera_id \in DOMAIN cameras
                  /\ cameras[tasks[t].camera_id] = tasks[t].stream
                  /\ streams'[tasks[t].stream].error # None
                  /\ streams'[tasks[t].stream].is_running
                  /\ \A s \in DOMAIN streams \ {tasks[t].stream} :
                        streams'[s] = streams[s]
                  /\ \A u \in DOMAIN tasks \ {t} :
                        u \in DOMAIN tasks' /\ tasks'[u] = tasks[u]
                  /\ UNCHANGED <<cameras, processing_tasks>>]_vars
    /\ [][\A t \in DOMAIN tasks :
             t \notin DOMAIN tasks'
               => tasks[t].cancelled \/ ~streams[tasks[t].stream].is_running]_vars

\* A loop has recorded an error and backs off while the loop of another
\* camera is alive with no error.
C15_Witness ==
    \E t \in DOMAIN tasks, u \in DOMAIN tasks :
       /\ tasks[t].pc = "backoff"
       /\ streams[tasks[t].stream].error # None
       /\ tasks[u].stream # tasks[t].stream
       /\ tasks[u].pc = "sleep"
       /\ streams[tasks[u].stream].error = None

\* C16: when stop_all returns, the loop of every camera has ended, every
\* registered camera is stopped and no task handle remains.
C16_StopAllTerminates ==
    [][StopAll
         => /\ \A c \in DOMAIN processing_tasks :
                  processing_tasks[c] \notin DOMAIN tasks'
            /\ \A c \in DOMAIN cameras : ~streams'[cameras[c]].is_running
            /\ processing_tasks' = EmptyMap]_vars

\* C17: a frame one of whose detections, after the zone check, is a
\* violation is handled: redacted, persisted and submitted as an alert.
C17_ViolationHandled == last_frame.violation => last_frame.handled

\* C18: the alerts of one camera reach the collaborator in the order of
\* their detections: an alert is accepted only when every alert the camera
\* forwarded before it has been accepted.
C18_AlertsInOrder ==
    \A i \in DOMAIN ok_sends, j \in DOMAIN ok_sends :
       (i < j /\ ok_sends[j] >= 1) => ok_sends[i] >= 1

\* C19: every evidence record that a save has written and that has not been
\* marked synced has its pending-sync marker.
C19_UnsyncedHasMarker ==
    \A d \in metadata_files : d \notin marked_synced => d \in pending_sync

\* C20: once mark_synced has removed the marker of a record, no later
\* operation makes the record pending again.
C20_SyncedIsMonotonic ==
    [][\A d \in marked_synced :
          d \notin pending_sync => d \notin pending_sync']_vars

\* C21: enforce_retention removes exactly the day directories whose date
\* is more than retention_days days before today and returns their number;
\* it removes no directory that holds a file saved within the last
\* retention_days days, at whatever time of the day it runs.
C21_RetentionWindow ==
    [][EnforceRetention =>
         /\ \A p \in DOMAIN partitions :
               (p \notin DOMAIN partitions')
                  <=> (DateFolder(now) - p[2] > retention_days)
         /\ retention_call'.deleted_count
               = Cardinality(DOMAIN partitions \ DOMAIN partitions')
         /\ \A p \in DOMAIN partitions :
               (now - partitions[p] <= retention_days * DaySeconds)
                  => p \in DOMAIN partitions']_vars

\* C22: the metadata get_evidence returns for a detection id carries the
\* hash of the bytes save_image was last given for that id, also after a
\* later save_video_clip for the same id.
C22_HashRoundTrip ==
    \A d \in DOMAIN saved_bytes :
       GetEvidence(d).file_hash = Sha256(saved_bytes[d])

\* An image was saved and then a clip for the same detection id, and the
\* metadata still carries the hash of the image.
C22_Witness ==
    \E d \in DOMAIN saved_bytes :
       /\ GetEvidence(d).video_path
       /\ GetEvidence(d).file_hash = Sha256(saved_bytes[d])
       /\ saved_bytes[d] # SimulatedImage

\* The penalty the claim gives to a severity.
PenaltyOf(severity) ==
    CASE severity = "critical" -> 25
      [] severity = "high" -> 15
      [] severity = "medium" -> 10
      [] severity = "low" -> 5

RECURSIVE SumPenalties(_)
SumPenalties(violations) ==
    IF violations = <<>>
      THEN 0
      ELSE PenaltyOf(Head(violations).severity) + SumPenalties(Tail(violations))

\* C23: the safety score of a frame is max(0, 100 - sum of the penalties of
\* its violations), so it is within 0..100, and a frame with one more
\* violation has a strictly lower score, or the score 0.
C23_ScoreFormula ==
    /\ [](score_call.called =>
            /\ score_call.safety_score
                  = Max(0, 100 - SumPenalties(score_call.violations))
            /\ score_call.safety_score \in 0..100)
    /\ [][(/\ score_call.called
           /\ Len(score_call'.violations) = Len(score_call.violations) + 1)
            => \/ score_call'.safety_score < score_call.safety_score
               \/ score_call'.safety_score = 0]_vars

\* The score of a frame whose penalties add up to more than 100.
C23_Witness ==
    /\ score_call.called
    /\ SumPenalties(score_call.violations) > 100
    /\ score_call.safety_score = 0

\* The order of the severities the claim gives: low, medium, high, critical.
RankOf(level) ==
    CHOOSE i \in 1..4 : <<"low", "medium", "high", "critical">>[i] = level

\* C24: the threshold rejects a severity exactly when it ranks below the
\* configured threshold; low is rejected under the threshold high, and
\* critical is rejected under no threshold.
C24_ThresholdFilter ==
    threshold_call.called =>
       /\ threshold_call.rejected
             <=> (RankOf(threshold_call.severity)
                    < RankOf(threshold_call.threshold))
       /\ (threshold_call.severity = "low" /\ threshold_call.threshold = "high")
             => threshold_call.rejected
       /\ threshold_call.severity = "critical" => ~threshold_call.rejected

\* A low severity was compared with the threshold high and rejected.
C24_Witness ==
    /\ threshold_call.called
    /\ threshold_call.severity = "low"
    /\ threshold_call.threshold = "high"
    /\ threshold_call.rejected

\* C25: a submission that is rejected (no violation, below the threshold,
\* within the cooldown) leaves the cooldown map, the counters and the sync
\* queue as they are; a submission that is accepted sets the cooldown time
\* of its key, adds one to the counter of its key and appends to the queue
\* a payload with acknowledged = false.
C25_RejectionSilent ==
    [][\A c \in Cameras, t \in Types, s \in Severities :
         \A vs \in {<<>>, <<Violation(t, s)>>} :
            Submit("det-0", c, vs, s) =>
               LET key == CooldownKey(c, t)
                   accepted == /\ vs # <<>>
                               /\ ~BelowThreshold(alert_threshold, s)
                               /\ ~(/\ key \in DOMAIN recent_alerts
                                     /\ now - recent_alerts[key]
                                           < cooldown_seconds)
               IN  IF accepted
                     THEN /\ last_submit'.outcome = "sent"
                          /\ recent_alerts' = MapSet(recent_alerts, key, now)
                          /\ alert_counts'
                                = MapSet(alert_counts, key,
                                         MapGet(alert_counts, key, 0) + 1)
                          /\ Len(pending_queue') = Len(pending_queue) + 1
                          /\ SubSeq(pending_queue', 1, Len(pending_queue))
                                = pending_queue
                          /\ LET data == pending_queue'[Len(pending_queue')].data
                             IN  /\ data.acknowledged = FALSE
                                 /\ data.camera_id = c
                                 /\ data.type = t
                                 /\ data.severity = s
                     ELSE /\ last_submit'.outcome \in {"empty", "suppressed"}
                          /\ UNCHANGED <<recent_alerts, alert_counts,
                                         pending_queue>>]_vars

\* A submission was suppressed after another one had been forwarded.
C25_Witness ==
    /\ last_submit.outcome = "suppressed"
    /\ pending_queue # <<>>
    /\ pending_queue[1].data.acknowledged = FALSE
    /\ recent_alerts # EmptyMap

\* C26: a submission that passes the threshold is suppressed only by an
\* alert forwarded for its own (camera_id, primary violation type) pair less
\* than cooldown_seconds before; an alert of another pair never suppresses
\* it.
C26_CooldownPerPair ==
    (/\ last_submit.outcome = "suppressed"
     /\ PassesThreshold(last_submit.severity))
    => (/\ last_submit.has_prev
        /\ last_submit.elapsed < cooldown_seconds)

\* C27: no detection that infer returns has a confidence below the
\* confidence_threshold the engine was constructed with.
C27_ConfidenceThreshold ==
    infer_call.called =>
       \A i \in 1..Len(infer_call.detections) :
          infer_call.detections[i].confidence >= confidence_threshold

\* The part of a region that lies inside the frame.
Inside(frame, r) ==
    [x |-> Max(0, r.x), y |-> Max(0, r.y),
     x2 |-> Min(frame.shape[2], r.x + r.w),
     y2 |-> Min(frame.shape[1], r.y + r.h)]

RECURSIVE InsideBoxes(_, _)
InsideBoxes(frame, regions) ==
    IF regions = <<>>
      THEN <<>>
      ELSE LET b == Inside(frame, Head(regions))
           IN  (IF b.x2 > b.x /\ b.y2 > b.y THEN <<b>> ELSE <<>>)
                 \o InsideBoxes(frame, Tail(regions))

\* C28: blur_faces and blur_regions return an array that is another object
\* than the frame they were given, also when there is no region to blur,
\* and blur in it the part of every region that lies inside the frame,
\* skipping the regions that do not meet the frame.
C28_PureTransform ==
    blur_call.op # "none" =>
       /\ blur_call.result.obj # blur_call.frame.obj
       /\ blur_call.result.shape = blur_call.frame.shape
       /\ blur_call.boxes = InsideBoxes(blur_call.frame, blur_call.regions)

\* C29: once stop_camera or remove_camera has returned for a camera, no
\* loop of that camera that was running at that time starts another
\* iteration: no inference, evidence save or alert submission comes from it.
C29_NoIterationAfterStop ==
    [][\A t \in DOMAIN tasks :
          tasks[t].stopped => ~(IterClean(t) \/ IterViolation(t))]_vars

\* The items of a queue that are not in a batch, in queue order.
RECURSIVE Beyond(_, _)
Beyond(queue, batch) ==
    IF queue = <<>>
      THEN <<>>
      ELSE (IF Head(queue) \in Range(batch) THEN <<>> ELSE <<Head(queue)>>)
             \o Beyond(Tail(queue), batch)

\* C30: a sync cycle takes as its batch the first items of the queue, ten at
\* most, and runs the send routine on items of the batch only, one after
\* the other; the queued items that are not in the batch stay in the
\* queue, in the same order, through every step of the cycle.
C30_BatchOfTen ==
    /\ [](loop_pc = "proc" =>
            /\ Len(cyc_batch) <= BatchSize
            /\ cyc_idx \in 1..Len(cyc_batch))
    /\ [][(loop_pc = "probe" /\ loop_pc' = "proc") =>
            /\ Len(cyc_batch') = Min(BatchSize, Len(pending_queue))
            /\ \A i \in 1..Len(cyc_batch') : cyc_batch'[i] = pending_queue[i]]_vars
    /\ [][(ProcStepOk \/ ProcStepFail) =>
            /\ Beyond(pending_queue', cyc_batch) = Beyond(pending_queue, cyc_batch)
            /\ cyc_idx' \in {0, cyc_idx, cyc_idx + 1}
            /\ \A k \in DOMAIN ok_sends :
                  (ok_sends'[k] # ok_sends[k] \/ steps_ok'[k] # steps_ok[k])
                     => \E i \in 1..Len(cyc_batch) :
                           cyc_batch[i].queued_at = k]_vars

\* C30: the tenth item of a batch is in flight while an eleventh item waits
\* in the queue, the first item of the batch having been sent.
C30_Witness ==
    /\ loop_pc = "proc"
    /\ Len(pending_queue) > BatchSize
    /\ Len(cyc_batch) = BatchSize
    /\ cyc_idx = BatchSize
    /\ ok_sends[cyc_batch[1].queued_at] > 0
    /\ ok_sends[pending_queue[BatchSize + 1].queued_at] = 0

\* C31: with a collaborator that is reachable, every queued item that it
\* accepts is eventually delivered and removed, however many items ahead of
\* it keep failing: the appends being finitely many, a time comes after
\* which no item that the collaborator accepts waits in the queue.
C31_QueueProgress ==
    <>[](\A i \in 1..Len(pending_queue) : ~Accepts(pending_queue[i]))

\* C32: the alerts forwarded so far, whatever submissions are suspended on
\* their POST, are all counted in total_alerts_sent; an alert is forwarded
\* only if, in the state in which the cooldown time and the counter are
\* updated, no alert of its key was forwarded less than cooldown_seconds
\* before, and the cooldown time of a key is never older than the latest
\* alert forwarded for a pair of that key.
C32_NoLostUpdate ==
    /\ [](TotalAlertsSent = next_uuid - 1)
    /\ [](TotalAlertsSent = next_seq - 1)
    /\ [](\A pair \in DOMAIN last_fwd :
            LET key == CooldownKey(pair[1], pair[2])
            IN  /\ key \in DOMAIN recent_alerts
                /\ recent_alerts[key] >= last_fwd[pair])
    /\ [][\A c \in Cameras :
            (/\ Submit("det-0", c, <<Violation("no_hardhat", "high")>>, "high")
             /\ last_submit'.outcome = "sent")
              => LET key == CooldownKey(c, "no_hardhat")
                 IN  /\ ~(/\ key \in DOMAIN recent_alerts
                          /\ now - recent_alerts[key] < cooldown_seconds)
                     /\ recent_alerts'[key] = now
                     /\ TotalAlertsSent' = TotalAlertsSent + 1]_vars

\* Two submissions are suspended on their POST, both counted, while a third
\* one of a key of theirs has been suppressed.
C32_Witness ==
    /\ Cardinality(inflight) >= 2
    /\ TotalAlertsSent >= 2
    /\ last_submit.outcome = "suppressed"

\* The pairs with a forwarded alert whose cooldown key is key.
FwdPairs(key) ==
    {pair \in DOMAIN last_fwd : CooldownKey(pair[1], pair[2]) = key}

BreachPairs ==
    {<<i, k>> \in (1..Len(zone_call.detections)) \X (1..Len(zone_call.zones)) :
        /\ zone_call.detections[i].class_name = "person"
        /\ zone_call.zones[k].zone_type = "exclusion"
        /\ LET center == Center(zone_call.detections[i].bbox)
           IN  PointInPolygon(center.x, center.y, zone_call.zones[k].polygon)}

\* C34: detect_zones returns one exclusion_zone_breach detection, critical,
\* of confidence 1.0 and a violation, for each pair of a person and an
\* exclusion zone whose polygon holds the center of the person's box, and
\* nothing else; the detections it was given are as they were.
C34_ZoneBreaches ==
    zone_call.called =>
       /\ Len(zone_call.result) = Cardinality(BreachPairs)
       /\ \A n \in 1..Len(zone_call.result) :
             /\ zone_call.result[n].class_name = "exclusion_zone_breach"
             /\ zone_call.result[n].severity = "critical"
             /\ zone_call.result[n].is_violation
             /\ zone_call.result[n].confidence = 100
       /\ zone_call.detections_after = zone_call.detections

\* The triangle with a horizontal edge from (0, 0) to (1, 0) and a vertical
\* edge from (0, 0) to (0, 1), its vertices in any order.
Triangles ==
    {<<a, b, c>> : a \in GridPoints, b \in GridPoints, c \in GridPoints}
      \cap {t \in Seq(GridPoints) :
               /\ Len(t) = 3
               /\ Range(t) = {Point(0, 0), Point(1, 0), Point(0, 1)}}

\* The edges of the latest polygon that the half-open rule counts for the
\* latest point: exactly one end is above the point, and the edge meets the
\* horizontal line of the point to the right of the point.
Crossed ==
    {i \in 1..Len(pip_call.polygon) :
       LET pi == pip_call.polygon[i]
           pj == pip_call.polygon[IF i = 1 THEN Len(pip_call.polygon) ELSE i - 1]
       IN  /\ (pi.y > pip_call.y) # (pj.y > pip_call.y)
           /\ LeftOfEdge(pip_call.x, pip_call.y, pi, pj)}

\* C35: _point_in_polygon never divides by zero, no horizontal edge toggles
\* its result, its result is the parity of the edges that the half-open
\* rule counts, and of the points of the triangle (0,0), (1,0), (0,1), all
\* on edges or vertices, the one it holds is (0, 0).
C35_HalfOpenRule ==
    pip_call.called =>
       /\ ~pip_call.run.raised
       /\ \A i \in pip_call.run.toggled :
             pip_call.polygon[i].y
                # pip_call.polygon[IF i = 1 THEN Len(pip_call.polygon)
                                           ELSE i - 1].y
       /\ pip_call.run.toggled = Crossed
       /\ pip_call.run.inside = (Cardinality(Crossed) % 2 = 1)
       /\ pip_call.polygon \in Triangles =>
             (pip_call.run.inside <=> (pip_call.x = 0 /\ pip_call.y = 0))

\* The point (0, 0), on the horizontal edge of a triangle, is inside it.
C35_Witness ==
    /\ pip_call.called
    /\ pip_call.polygon \in Triangles
    /\ pip_call.x = 0
    /\ pip_call.y = 0
    /\ pip_call.run.inside

\* The greatest SEVERITY_PRIORITY among the violations of a frame.
RECURSIVE MaxPriority(_)
MaxPriority(violations) ==
    IF violations = <<>>
      THEN 0
      ELSE Max(SeverityPriority(Head(violations).severity, 1),
               MaxPriority(Tail(violations)))

\* C36: the severity that _handle_violation passes to send_alert for a
\* frame is the most severe of the frame's violations in the order
\* critical > high > medium > low.
C36_MostSevere ==
    [][\A c \in Cameras, vs \in FrameViolations :
          HandleViolations(c, vs)
            => SeverityPriority(last_submit'.severity, 1) = MaxPriority(vs)]_vars

\* C37: a registered camera whose stream has is_running true has a loop
\* that has not ended and is not being cancelled, running or about to be
\* scheduled for the first time; add_camera with fps 0 in the configuration
\* returns failure and registers nothing.
C37_RunningHasLoop ==
    /\ [](\A c \in DOMAIN cameras :
            streams[cameras[c]].is_running
              => \E t \in DOMAIN tasks :
                    /\ tasks[t].stream = cameras[c]
                    /\ ~tasks[t].cancelled)
    /\ [][\A c \in Cameras, e \in BOOLEAN :
            AddCameraConfig(c, e, 0)
              => /\ cam_call'.result = "false"
                 /\ UNCHANGED <<cameras, streams, tasks>>]_vars

\* The alert items that the step appends to the sync queue.
NewAlerts ==
    {q \in Range(pending_queue') :
        q \notin Range(pending_queue) /\ q.type = "alert"}

\* C38: when an alert of a detection is appended to the sync queue by a
\* camera loop, the Evidence Store holds the image, the metadata file and
\* the sync marker of that detection; an iteration whose save_image raises
\* submits nothing and the error is recorded in the stream of the camera.
C38_EvidenceBeforeAlert ==
    /\ [][\A q \in NewAlerts :
            LET d == q.data.detection_id
            IN  /\ d \in DOMAIN saved_bytes'
                /\ <<"images", DateFolder(now)>> \in DOMAIN partitions'
                /\ d \in metadata_files'
                /\ d \in pending_sync']_vars
    /\ [][\A t \in DOMAIN tasks, stage \in SaveStages :
            IterSaveFailed(t, stage)
              => /\ NewAlerts = {}
                 /\ UNCHANGED <<alert_counts, recent_alerts, last_submit>>
                 /\ streams'[tasks[t].stream].error # None]_vars

\* A camera loop has handled a frame with a violation: its alert is queued
\* and the store holds the image, the metadata and the marker of its
\* detection.
C38_Witness ==
    /\ last_frame = FrameRecord(TRUE, TRUE)
    /\ \E i \in 1..Len(pending_queue) :
          /\ pending_queue[i].type = "alert"
          /\ pending_queue[i].data.detection_id \in pending_sync
          /\ pending_queue[i].data.detection_id \in metadata_files
          /\ pending_queue[i].data.detection_id \in DOMAIN saved_bytes

\* The Evidence Store under its four operations over the days: files are
\* saved, markers are removed, the clock moves on and the retention sweep
\* runs.
NextSweep ==
    \/ SaveImage(SimulatedImage, "evidence-0")
         /\ UNCHANGED <<next_frame, alertVars, syncVars, camVars, now, fnVars>>
    \/ SaveVideoClip("evidence-0", None)
         /\ UNCHANGED <<next_frame, alertVars, syncVars, camVars, now, fnVars>>
    \/ MarkSynced("evidence-0")
    \/ \E d \in ClockJumps : AdvanceClock(d)
    \/ EnforceRetention

SpecSweep == Init /\ [][NextSweep]_vars

\* The folder of the storage root that holds the file a stored path names.
RefFolder(key) == IF key = "video_path" THEN "videos" ELSE "images"

\* C39: the path in every pending-sync marker and the image and video paths
\* in every metadata file name a file in a day directory that still exists:
\* no marker or metadata file points into a partition that a retention
\* sweep has deleted.
C39_NoDanglingRefs ==
    \A r \in DOMAIN file_refs :
       <<RefFolder(r[1]), file_refs[r]>> \in DOMAIN partitions

\* A camera is registered, its stream is not running and no task is stored
\* for it.
Idle(c) ==
    /\ c \in DOMAIN cameras
    /\ ~streams[cameras[c]].is_running
    /\ c \notin DOMAIN processing_tasks

\* C40: add_camera of a new id with enabled true returns with the camera
\* registered, is_running true and a task stored for it that has not ended
\* and is not cancelled; with enabled false it returns with the camera
\* registered, is_running false, no task stored and none created, and the
\* camera stays so until start_camera (or remove_camera) is called for it;
\* remove_camera of a registered camera returns with the camera out of the
\* registry, no task stored for it, and every loop of the camera that has
\* not ended either cancelled or holding a stopped stream.
C40_AddLifecycle ==
    /\ [][\A c \in Cameras :
            (c \notin DOMAIN cameras /\ AddCamera(c, TRUE))
              => /\ cam_call'.result = "true"
                 /\ c \in DOMAIN cameras'
                 /\ streams'[cameras'[c]].is_running
                 /\ c \in DOMAIN processing_tasks'
                 /\ processing_tasks'[c] \in DOMAIN tasks' \ DOMAIN tasks
                 /\ ~tasks'[processing_tasks'[c]].cancelled
                 /\ tasks'[processing_tasks'[c]].stream = cameras'[c]]_vars
    /\ [][\A c \in Cameras :
            (c \notin DOMAIN cameras /\ AddCamera(c, FALSE))
              => /\ cam_call'.result = "true"
                 /\ Idle(c)'
                 /\ UNCHANGED tasks]_vars
    /\ [][\A c \in Cameras :
            Idle(c) => Idle(c)' \/ StartCamera(c) \/ RemoveCamera(c)]_vars
    /\ [][\A c \in Cameras :
            (c \in DOMAIN cameras /\ RemoveCamera(c))
              => /\ cam_call'.result = "true"
                 /\ c \notin DOMAIN cameras'
                 /\ c \notin DOMAIN processing_tasks'
                 /\ \A t \in DOMAIN tasks' :
                       tasks'[t].camera_id = c
                         => \/ tasks'[t].cancelled
                            \/ ~streams'[tasks'[t].stream].is_running]_vars

\* remove_camera has returned for a camera that was running: the camera is
\* not registered, no task is stored for it and its loop, cancelled, has not
\* ended yet, while another camera, registered disabled, is idle.
C40_Witness ==
    /\ cam_call = CallRecord("remove_camera", "true")
    /\ \E c \in Cameras :
          /\ c \notin DOMAIN cameras
          /\ c \notin DOMAIN processing_tasks
          /\ \E t \in DOMAIN tasks :
                tasks[t].camera_id = c /\ tasks[t].cancelled
    /\ \E c \in Cameras :
          /\ Idle(c)
          /\ \A t \in DOMAIN tasks : tasks[t].camera_id # c

====
